---- MODULE Spec2Model ----
(***************************************************************************)
(* Alignment-and-simulation core of Financial-D2T-Agent:                   *)
(*   - scripts/04b_align_fundamentals.py : point-in-time aligner           *)
(*   - mcp_trading_server.py             : panel cache, score, decision,   *)
(*                                         thresholds, standalone backtest *)
(*   - run_trading.py                    : live trading simulator          *)
(* Every component has its own specification (SpecAlign, ...); the         *)
(* variables of the other components stay at their idle values.            *)
(***************************************************************************)
EXTENDS Integers, Sequences, FiniteSets, TLC

VARIABLES
    \* ---- aligner (04b_align_fundamentals.py)
    daily,          \* DataFrame of return rows: sequence of [ticker, date]
    wide_facts,     \* DataFrame of wide snapshots: sequence of [ticker, filed, vals]
    panel,          \* output of merge_fundamentals_daily
    align_pc,       \* "start" | "done"
    facts,          \* long facts as load_companyfacts returns them
    normalized,     \* the facts as the normalizer steps have left them so far
    renormalized,   \* the normalizer applied to its own output
    norm_pc,        \* "loaded" | "filtered" | "single_unit" | "normalized" |
                    \* "renormalized" | "wide"
    \* ---- trading tools (mcp_trading_server.py)
    panel_df,       \* the panel DataFrame _load_panel_cached returns
    request,        \* the tool call being served
    response,       \* what the tool call returned
    server_pc,      \* "ready" | "scored" | "done"
    \* ---- live trading simulator (run_trading.py, main)
    cfg,            \* experiment configuration of the run
    cash,
    shares_held,
    prev_value,     \* None (Null) before the first simulated day
    trajectory,     \* the TradeEvent records appended so far
    trade_pc,       \* "loop" | "raised", or "call" | "returned" for one call
    manager_json,   \* what the manager answered on the last simulated day
    \* ---- panel cache (mcp_trading_server.py, _load_panel_cached)
    panel_file,         \* DATA_PANEL on disk: [exists, mtime, content]
    now,                \* the clock that stamps the writes of DATA_PANEL
    _PANEL_CACHE,       \* None (Null) or <<content>> of the parsed panel
    _PANEL_CACHE_MTIME, \* None (Null) or <<mtime>>
    caller,             \* per caller: [pc, mtime, df, stat_at], position and locals
    served,             \* what the last finished access returned, per caller
    load_count,         \* number of "Loaded panel" log lines
    access_count        \* number of finished accesses

normVars == <<facts, normalized, renormalized, norm_pc>>
alignVars == <<daily, wide_facts, panel, align_pc, normVars>>
serverVars == <<panel_df, request, response, server_pc>>
tradeVars == <<cfg, cash, shares_held, prev_value, trajectory, trade_pc, manager_json>>
cacheVars == <<panel_file, now, _PANEL_CACHE, _PANEL_CACHE_MTIME, caller, served,
               load_count, access_count>>
vars == <<alignVars, serverVars, tradeVars, cacheVars>>

(***************************************************************************)
(* Bounds of the model                                                     *)
(***************************************************************************)
MaxDate == 3        \* calendar days are 1..MaxDate
MaxRows == 3        \* return rows in the daily input
MaxSnaps == 2       \* snapshots in the wide fundamentals input
MaxDays == 3        \* simulated days of one trading run
MaxClock == 3       \* the backing panel file is written at times 1..MaxClock
MaxAccesses == 3    \* finished accesses of the panel cache
MaxPanelRows == 2   \* rows of the panel the trading tools read
MaxFacts == 3       \* raw facts given to the normalizer
MaxFeatureRows == 6 \* rows of one security in a panel without rolling columns

(***************************************************************************)
(* Values                                                                  *)
(***************************************************************************)
\* A nullable cell is <<>> (NaN / NaT / None) or <<v>>.
Null == <<>>
Some(v) == <<v>>
IsNull(x) == x = <<>>
Val(x) == x[1]

Tickers == {"AAA", "BBB"}
TickerRank(t) == IF t = "AAA" THEN 1 ELSE 2     \* string order of the symbols
Dates == 1..MaxDate

\* The tracked concept columns (two of the eight of the source list).
CONCEPTS == <<"Assets", "Revenues">>
ConceptSet == {CONCEPTS[i] : i \in 1..Len(CONCEPTS)}

\* Concepts and units of the raw facts, with their string order.
FactConcepts == {"Assets", "Goodwill", "Revenues"}
ConceptRank(c) == IF c = "Assets" THEN 1 ELSE IF c = "Goodwill" THEN 2 ELSE 3
Units == {"USD", "shares"}
UnitRank(u) == IF u = "USD" THEN 1 ELSE 2       \* "USD" < "shares"

RECURSIVE SeqOfSet(_)
SeqOfSet(S) == IF S = {} THEN <<>>
               ELSE LET x == CHOOSE y \in S : TRUE IN <<x>> \o SeqOfSet(S \ {x})

RECURSIVE Reverse(_)
Reverse(s) == IF s = <<>> THEN <<>> ELSE Reverse(Tail(s)) \o <<Head(s)>>

(***************************************************************************)
(* DataFrame.sort_values(by): stable sort on the key columns               *)
(***************************************************************************)
SortKey(r, by) ==
    CASE by = "date"        -> <<r.date>>
      [] by = "filed"       -> <<r.filed>>
      [] by = "ticker_date" -> <<TickerRank(r.ticker), r.date>>
      [] by = "ticker_filed" -> <<TickerRank(r.ticker), r.filed>>
      [] by = "ticker_concept_filed_end" ->
            <<TickerRank(r.ticker), ConceptRank(r.concept), r.filed, r.end>>
      [] by = "ticker_concept_unit" ->
            <<TickerRank(r.ticker), ConceptRank(r.concept), UnitRank(r.unit)>>
      [] by = "ticker_concept_n_descending" ->
            <<TickerRank(r.ticker), ConceptRank(r.concept), 0 - r.n>>

RECURSIVE KeyLess(_,_)
KeyLess(a, b) ==
    IF a = <<>> \/ b = <<>> THEN FALSE
    ELSE IF Head(a) # Head(b) THEN Head(a) < Head(b)
    ELSE KeyLess(Tail(a), Tail(b))

RECURSIVE InsertSorted(_,_,_)
InsertSorted(sorted, r, by) ==
    IF sorted = <<>> THEN <<r>>
    ELSE IF KeyLess(SortKey(r, by), SortKey(Head(sorted), by))
         THEN <<r>> \o sorted
         ELSE <<Head(sorted)>> \o InsertSorted(Tail(sorted), r, by)

RECURSIVE SortFrom(_,_,_)
SortFrom(df, acc, by) ==
    IF df = <<>> THEN acc
    ELSE SortFrom(Tail(df), InsertSorted(acc, Head(df), by), by)

sort_values(df, by) == SortFrom(df, <<>>, by)

(***************************************************************************)
(* pandas.merge_asof(direction="backward"): the two-pointer scan           *)
(***************************************************************************)
\* right_pos counts the right rows already passed (0-based position).
RECURSIVE AdvanceRightLookahead(_,_,_,_)
AdvanceRightLookahead(right, right_pos, key, exact) ==
    IF right_pos < Len(right) /\ right[right_pos + 1].filed <= key + 1
    THEN AdvanceRightLookahead(right, right_pos + 1, key, exact)
    ELSE right_pos

RECURSIVE AdvanceRight(_,_,_,_)
AdvanceRight(right, right_pos, key, exact) ==
    IF right_pos < Len(right)
       /\ (IF exact THEN right[right_pos + 1].filed <= key
                    ELSE right[right_pos + 1].filed < key)
    THEN AdvanceRight(right, right_pos + 1, key, exact)
    ELSE right_pos

\* The right index matched to each left row; -1 is "no match".
RECURSIVE asof_join_backward(_,_,_,_,_)
asof_join_backward(left, right, left_pos, right_pos, exact) ==
    IF left_pos > Len(left) THEN <<>>
    ELSE LET restart == IF right_pos < 0 THEN 0 ELSE right_pos
             found == AdvanceRight(right, restart, left[left_pos].date, exact) - 1
         IN  <<found>> \o asof_join_backward(left, right, left_pos + 1, found, exact)

AllNaN == [c \in ConceptSet |-> Null]

MergedRow(l, right, idx) ==
    IF idx < 0
    THEN [ticker |-> l.ticker, date |-> l.date, filed |-> Null, vals |-> AllNaN]
    ELSE [ticker |-> l.ticker, date |-> l.date,
          filed |-> Some(right[idx + 1].filed), vals |-> right[idx + 1].vals]

merge_asof_inner(left, right, exact) ==
    LET idx == asof_join_backward(left, right, 1, 0, exact)
        all == [i \in 1..Len(left) |-> MergedRow(left[i], right, idx[i])]
    IN  SelectSeq(all, LAMBDA r : ~IsNull(r.filed))

merge_asof(left, right, exact) ==
    LET idx == asof_join_backward(left, right, 1, 0, exact)
    IN  [i \in 1..Len(left) |-> MergedRow(left[i], right, idx[i])]

(***************************************************************************)
(* merge_fundamentals_daily                                                *)
(***************************************************************************)
\* daily.groupby("ticker", sort=False): group keys in order of first appearance.
RECURSIVE GroupKeys(_,_)
GroupKeys(df, seen) ==
    IF df = <<>> THEN <<>>
    ELSE IF Head(df).ticker \in seen THEN GroupKeys(Tail(df), seen)
    ELSE <<Head(df).ticker>> \o GroupKeys(Tail(df), seen \cup {Head(df).ticker})

RowsOf(df, t) == SelectSeq(df, LAMBDA r : r.ticker = t)

EmptyFactsPartDropped(df_t) == <<>>

\* The branch taken when the ticker has no snapshot (facts_t.empty).
EmptyFactsPart(df_t) ==
    [i \in 1..Len(df_t) |->
        [ticker |-> df_t[i].ticker, date |-> df_t[i].date,
         filed |-> Null, vals |-> AllNaN]]

TickerPartStrict(df, wide, t) ==
    LET df_t == sort_values(RowsOf(df, t), "date")
        facts_t == sort_values(RowsOf(wide, t), "filed")
    IN  IF facts_t = <<>> THEN EmptyFactsPart(df_t)
        ELSE merge_asof(df_t, facts_t, FALSE)

TickerPart(df, wide, t) ==
    LET df_t == sort_values(RowsOf(df, t), "date")
        facts_t == sort_values(RowsOf(wide, t), "filed")
    IN  IF facts_t = <<>> THEN EmptyFactsPart(df_t)
        ELSE merge_asof(df_t, facts_t, TRUE)

RECURSIVE ConcatParts(_,_,_)
ConcatParts(df, wide, keys) ==
    IF keys = <<>> THEN <<>>
    ELSE TickerPart(df, wide, Head(keys)) \o ConcatParts(df, wide, Tail(keys))

merge_fundamentals_daily(df, wide) ==
    sort_values(ConcatParts(df, wide, GroupKeys(df, {})), "ticker_date")


(***************************************************************************)
(* Fact normalizer: filter_concepts, choose_single_unit,                   *)
(* keep_latest_per_filed_date                                              *)
(***************************************************************************)
\* A fact is [ticker, concept, unit, filed, end, value]; value is nullable.
filter_concepts(df, concepts) == SelectSeq(df, LAMBDA r : r.concept \in concepts)

\* groupby(["ticker", "concept", "unit"]).size().reset_index(name="n"): one
\* row per key that occurs, in the sorted order of the keys.
GroupSizes(df) ==
    LET keys == {<<df[i].ticker, df[i].concept, df[i].unit>> : i \in 1..Len(df)}
        n(k) == Cardinality({i \in 1..Len(df) :
                               <<df[i].ticker, df[i].concept, df[i].unit>> = k})
    IN  sort_values(SeqOfSet({[ticker |-> k[1], concept |-> k[2], unit |-> k[3],
                               n |-> n(k)] : k \in keys}),
                    "ticker_concept_unit")

\* The columns a row is compared on.
SubsetOf(r, subset) ==
    CASE subset = "ticker_concept"       -> <<r.ticker, r.concept>>
      [] subset = "ticker_concept_filed" -> <<r.ticker, r.concept, r.filed>>

\* drop_duplicates(subset=...): keep="first" or keep="last".
drop_duplicates(df, subset, keep) ==
    LET Key(r) == SubsetOf(r, subset)
        Kept(i) == IF keep = "first"
                   THEN \A j \in 1..(i - 1) : Key(df[j]) # Key(df[i])
                   ELSE \A j \in (i + 1)..Len(df) : Key(df[j]) # Key(df[i])
        F[i \in 0..Len(df)] ==
            IF i = 0 THEN <<>>
            ELSE IF Kept(i) THEN Append(F[i - 1], df[i]) ELSE F[i - 1]
    IN  F[Len(df)]

\* The unit kept when the counts are ordered by unit alone.
choose_single_unit_first_by_name(df) ==
    LET chosen == drop_duplicates(GroupSizes(df), "ticker_concept", "first")
    IN  SelectSeq(df, LAMBDA r :
            \E k \in 1..Len(chosen) :
               /\ chosen[k].ticker = r.ticker
               /\ chosen[k].concept = r.concept
               /\ chosen[k].unit = r.unit)

choose_single_unit(df) ==
    LET counts == sort_values(GroupSizes(df), "ticker_concept_n_descending")
        chosen == drop_duplicates(counts, "ticker_concept", "first")
    IN  \* df.merge(chosen, how="inner"): the rows of df with a chosen key
        SelectSeq(df, LAMBDA r :
            \E k \in 1..Len(chosen) :
               /\ chosen[k].ticker = r.ticker
               /\ chosen[k].concept = r.concept
               /\ chosen[k].unit = r.unit)

\* The first row of each key kept instead of the last.
keep_first_per_filed_date(df) ==
    drop_duplicates(sort_values(df, "ticker_concept_filed_end"), "ticker_concept_filed", "first")

\* Only the first row of a duplicated key dropped.
keep_latest_drop_one(df) ==
    LET sorted == sort_values(df, "ticker_concept_filed_end")
        First(i) == \A j \in 1..(i - 1) : SubsetOf(sorted[j], "ticker_concept_filed") # SubsetOf(sorted[i], "ticker_concept_filed")
        Last(i) == \A j \in (i + 1)..Len(sorted) : SubsetOf(sorted[j], "ticker_concept_filed") # SubsetOf(sorted[i], "ticker_concept_filed")
        F[i \in 0..Len(sorted)] ==
            IF i = 0 THEN <<>>
            ELSE IF First(i) /\ ~Last(i) THEN F[i - 1] ELSE Append(F[i - 1], sorted[i])
    IN  F[Len(sorted)]

keep_latest_per_filed_date(df) ==
    drop_duplicates(sort_values(df, "ticker_concept_filed_end"), "ticker_concept_filed", "last")

\* main, lines 425-427: the three steps in order.
Normalizer(df) ==
    keep_latest_per_filed_date(choose_single_unit(filter_concepts(df, ConceptSet)))

\* aggfunc="last" of one (ticker, filed, concept) group: the value of its last
\* row with a non-null value, null when it has none.
LastValid(df, t, f, c) ==
    LET vs == SelectSeq(df, LAMBDA r : /\ r.ticker = t /\ r.filed = f /\ r.concept = c
                                       /\ r.value # Null)
    IN  IF vs = <<>> THEN Null ELSE vs[Len(vs)].value

\* df.pivot_table(index=["ticker", "filed"], columns="concept", values="value",
\* aggfunc="last").reset_index(), dropna left at True: the groups are
\* aggregated, the groups whose aggregate is null are dropped, the rest is
\* unstacked, so that the rows are the (ticker, filed) and the columns the
\* concepts with an aggregate that is not null; a cell without one is null.
pivot_table(df) ==
    LET agged == {k \in {<<df[i].ticker, df[i].filed, df[i].concept>> : i \in 1..Len(df)} :
                    LastValid(df, k[1], k[2], k[3]) # Null}
        index == {<<k[1], k[2]>> : k \in agged}
        columns == {k[3] : k \in agged}
    IN  SeqOfSet({[ticker |-> k[1], filed |-> k[2],
                   vals |-> [c \in columns |-> LastValid(df, k[1], k[2], c)]] :
                  k \in index})

fundamentals_wide_by_filed(df) == sort_values(pivot_table(df), "ticker_filed")

(***************************************************************************)
(* Floats: NaN is Null, a finite float is an exact fraction <<n, d>>, d > 0 *)
(***************************************************************************)
Abs(i) == IF i < 0 THEN -i ELSE i

RECURSIVE GCD(_,_)
GCD(a, b) == IF b = 0 THEN a ELSE GCD(b, a % b)

Rat(n, d) ==
    LET g == GCD(Abs(n), Abs(d))
        sgn == IF d < 0 THEN -1 ELSE 1
    IN  <<(sgn * n) \div g, (sgn * d) \div g>>

NaN == Null
isnan(x) == x = Null
Num(x) == x[1]
Den(x) == x[2]

\* Arithmetic propagates NaN; a comparison with NaN is false.
FAdd(a, b) == IF isnan(a) \/ isnan(b) THEN NaN
              ELSE Rat(Num(a) * Den(b) + Num(b) * Den(a), Den(a) * Den(b))
FSub(a, b) == IF isnan(a) \/ isnan(b) THEN NaN
              ELSE Rat(Num(a) * Den(b) - Num(b) * Den(a), Den(a) * Den(b))
FMul(a, b) == IF isnan(a) \/ isnan(b) THEN NaN
              ELSE Rat(Num(a) * Num(b), Den(a) * Den(b))
\* Division is only applied to a non-zero divisor.
FDiv(a, b) == IF isnan(a) \/ isnan(b) THEN NaN
              ELSE Rat(Num(a) * Den(b), Den(a) * Num(b))
FGe(a, b) == ~isnan(a) /\ ~isnan(b) /\ Num(a) * Den(b) >= Num(b) * Den(a)
FGt(a, b) == ~isnan(a) /\ ~isnan(b) /\ Num(a) * Den(b) > Num(b) * Den(a)
FLe(a, b) == FGe(b, a)
FLt(a, b) == FGt(b, a)
FAbs(a) == IF isnan(a) THEN NaN ELSE <<Abs(Num(a)), Den(a)>>
\* Python's min(a, b): b when b < a, otherwise a.
FMin(a, b) == IF FLt(b, a) THEN b ELSE a
Zero == Rat(0, 1)
One == Rat(1, 1)
Int2F(i) == Rat(i, 1)
Floor(x) == Num(x) \div Den(x)

\* str.strip().upper() / .lower() on the strings the model uses.
StripUpper(x) ==
    CASE x = "buy "  -> "BUY"
      [] x = " aaa"  -> "AAA"
      [] OTHER       -> x
StripLower(x) ==
    CASE x = "ALL_IN "     -> "all_in"
      [] x = "PERCENTILE " -> "percentile"
      [] OTHER             -> x

(***************************************************************************)
(* Decision function                                                       *)
(***************************************************************************)
score_to_action_strict(score, buy_th, sell_th) ==
    IF FGt(score, buy_th) THEN "BUY"
    ELSE IF FLt(score, sell_th) THEN "SELL"
    ELSE "HOLD"

_score_to_action(score, buy_th, sell_th) ==
    IF FGe(score, buy_th) THEN "BUY"
    ELSE IF FLe(score, sell_th) THEN "SELL"
    ELSE "HOLD"


(***************************************************************************)
(* Trading tools (mcp_trading_server.py): dates, features, score           *)
(***************************************************************************)
\* A Timestamp counts half days: day d at midnight is 2*d, at noon 2*d + 1.
\* A date string is <<"garbage">>, <<"">> or <<"date", d, h>>.
Midnight(d) == 2 * d
NaT == Null
to_datetime(x) == IF x[1] = "date" THEN Some(2 * x[2] + x[3]) ELSE NaT
normalize(ts) == ts - (ts % 2)
DateOf(ts) == normalize(ts) \div 2

RollWindow5 == 5
RollWindow20 == 20

RECURSIVE FSum(_)
FSum(xs) == IF xs = <<>> THEN Zero ELSE FAdd(Head(xs), FSum(Tail(xs)))

\* The last w values of xs up to position i, or <<>> when there are fewer.
Window(xs, i, w) == IF i < w THEN <<>> ELSE SubSeq(xs, i - w + 1, i)
HasNaN(xs) == \E k \in 1..Len(xs) : isnan(xs[k])

\* Series.rolling(w).sum(): NaN until w observations, none of them NaN.
RollingSum(xs, i, w) ==
    LET win == Window(xs, i, w)
    IN  IF win = <<>> \/ HasNaN(win) THEN NaN ELSE FSum(win)

\* The square root of a fraction that has one.
SqrtF(x) ==
    LET n == CHOOSE k \in 0..Num(x) : k * k = Num(x)
        d == CHOOSE k \in 1..Den(x) : k * k = Den(x)
    IN  Rat(n, d)

\* Series.rolling(w).std(): the sample standard deviation (ddof = 1).
RollingStd(xs, i, w) ==
    LET win == Window(xs, i, w)
    IN  IF win = <<>> \/ HasNaN(win) THEN NaN
        ELSE LET mean == FDiv(FSum(win), Int2F(w))
                 sq == [k \in 1..w |-> FMul(FSub(win[k], mean), FSub(win[k], mean))]
             IN  SqrtF(FDiv(FSum(sq), Int2F(w - 1)))

\* The returns of every row up to row i, whatever its ticker.
RetsUpToAnyTicker(rows, i) == [k \in 1..i |-> rows[k].ret_1d]

\* The rows of ticker t that precede or are row i of the frame.
RetsUpTo(rows, i) ==
    LET mine == SelectSeq(SubSeq(rows, 1, i), LAMBDA r : r.ticker = rows[i].ticker)
    IN  [k \in 1..Len(mine) |-> mine[k].ret_1d]

\* _ensure_features: the rolling columns are added when the file lacks them.
_ensure_features(frame) ==
    IF frame.has_features THEN frame
    ELSE [has_features |-> TRUE,
          rows |-> [i \in 1..Len(frame.rows) |->
                     LET xs == RetsUpTo(frame.rows, i)
                     IN  [frame.rows[i] EXCEPT
                            !.ret_5d = RollingSum(xs, Len(xs), RollWindow5),
                            !.ret_20d = RollingSum(xs, Len(xs), RollWindow20),
                            !.vol_20d = RollingStd(xs, Len(xs), RollWindow20)]]]

\* The column computed with a null return counted as 0.
score_mom_filled_return(r) ==
    IF isnan(r.vol_20d) \/ r.vol_20d = Zero THEN NaN
    ELSE FDiv(IF isnan(r.ret_20d) THEN Zero ELSE r.ret_20d, r.vol_20d)

\* _compute_score_column: ret_20d / vol_20d, NaN for a zero or NaN volatility.
ScoreMom(r) ==
    IF isnan(r.vol_20d) \/ r.vol_20d = Zero THEN NaN ELSE FDiv(r.ret_20d, r.vol_20d)

_compute_score_column(frame) ==
    [frame EXCEPT !.rows = [i \in 1..Len(frame.rows) |->
        [ticker |-> frame.rows[i].ticker, date |-> frame.rows[i].date,
         ret_1d |-> frame.rows[i].ret_1d, ret_5d |-> frame.rows[i].ret_5d,
         ret_20d |-> frame.rows[i].ret_20d,
         vol_20d |-> frame.rows[i].vol_20d, score_mom |-> ScoreMom(frame.rows[i])]]]

\* _get_row: None (Null) or <<row>>.
_get_row(frame, ticker, date_str) ==
    LET t == StripUpper(ticker)
        d == to_datetime(date_str)
    IN  IF d = NaT THEN Null
        ELSE LET sub == SelectSeq(frame.rows,
                           LAMBDA r : r.ticker = t /\ r.date = normalize(Val(d)))
             IN  IF sub = <<>> THEN Null ELSE Some(sub[Len(sub)])

\* The null return left in the numerator.
heuristic_score_null_numerator(row) ==
    LET vol0 == row.vol_20d
        vol_20d == IF isnan(vol0) \/ vol0 = Zero THEN One ELSE vol0
        score == FDiv(row.ret_20d, vol_20d)
    IN  [score |-> score,
         components |-> [ret_20d |-> IF isnan(row.ret_20d) THEN Null ELSE Some(row.ret_20d),
                         vol_20d |-> IF isnan(vol0) \/ vol0 = Zero THEN Null ELSE Some(vol0),
                         score |-> score]]

\* The score of a row without a usable volatility set to zero.
heuristic_score_zero_when_degenerate(row) ==
    LET ret0 == row.ret_20d
        vol0 == row.vol_20d
        degenerate == isnan(vol0) \/ vol0 = Zero
        score == IF degenerate THEN Zero
                 ELSE FDiv(IF isnan(ret0) THEN Zero ELSE ret0, vol0)
    IN  [score |-> score,
         components |-> [ret_20d |-> IF isnan(ret0) THEN Null ELSE Some(ret0),
                         vol_20d |-> IF degenerate THEN Null ELSE Some(vol0),
                         score |-> score]]

\* _heuristic_score: the score and its reported components.
_heuristic_score(row) ==
    LET ret0 == row.ret_20d
        vol0 == row.vol_20d
        ret_20d == IF isnan(ret0) THEN Zero ELSE ret0
        vol_20d == IF isnan(vol0) \/ vol0 = Zero THEN One ELSE vol0
        score == FDiv(ret_20d, vol_20d)
    IN  [score |-> score,
         components |-> [ret_20d |-> IF isnan(ret0) THEN Null ELSE Some(ret0),
                         vol_20d |-> IF isnan(vol0) \/ vol0 = Zero THEN Null ELSE Some(vol0),
                         score |-> score]]

(***************************************************************************)
(* Threshold resolver                                                      *)
(***************************************************************************)
RECURSIVE InsertFloat(_,_)
InsertFloat(sorted, x) ==
    IF sorted = <<>> THEN <<x>>
    ELSE IF FLt(x, Head(sorted)) THEN <<x>> \o sorted
    ELSE <<Head(sorted)>> \o InsertFloat(Tail(sorted), x)

\* The scores left in row order.
SortFloatsRowOrder(xs) == xs

RECURSIVE SortFloats(_)
SortFloats(xs) == IF xs = <<>> THEN <<>> ELSE InsertFloat(SortFloats(Tail(xs)), Head(xs))

\* Series.quantile(q): linear interpolation between order statistics.
Quantile(xs, q) ==
    LET v == SortFloats(xs)
        pos == FMul(q, Int2F(Len(v) - 1))
        lo == Floor(pos)
        frac == FSub(pos, Int2F(lo))
    IN  IF frac = Zero THEN v[lo + 1]
        ELSE FAdd(v[lo + 1], FMul(FSub(v[lo + 2], v[lo + 1]), frac))

DefaultBuy == Rat(1, 4)
DefaultSell == Rat(-1, 4)

percentile_thresholds_any_ticker(frame, ticker, q_buy, q_sell, start_date, end_date) ==
    LET s == IF start_date[1] = "" THEN NaT ELSE to_datetime(start_date)
        e == IF end_date[1] = "" THEN NaT ELSE to_datetime(end_date)
        sub == SelectSeq(frame.rows,
                  LAMBDA r : /\ (s # NaT => r.date >= normalize(Val(s)))
                             /\ (e # NaT => r.date <= normalize(Val(e)))
                             /\ ~isnan(r.score_mom))
        scores == [k \in 1..Len(sub) |-> sub[k].score_mom]
    IN  IF Len(sub) = 0
        THEN [buy |-> DefaultBuy, sell |-> DefaultSell, n_used |-> 0]
        ELSE [buy |-> Quantile(scores, q_buy), sell |-> Quantile(scores, q_sell),
              n_used |-> Len(sub)]

_percentile_thresholds(frame, ticker, q_buy, q_sell, start_date, end_date) ==
    LET t == StripUpper(ticker)
        s == IF start_date[1] = "" THEN NaT ELSE to_datetime(start_date)
        e == IF end_date[1] = "" THEN NaT ELSE to_datetime(end_date)
        sub == SelectSeq(frame.rows,
                  LAMBDA r : /\ r.ticker = t
                             /\ (s # NaT => r.date >= normalize(Val(s)))
                             /\ (e # NaT => r.date <= normalize(Val(e)))
                             /\ ~isnan(r.score_mom))
        scores == [k \in 1..Len(sub) |-> sub[k].score_mom]
    IN  IF Len(sub) = 0
        THEN [buy |-> DefaultBuy, sell |-> DefaultSell, n_used |-> 0]
        ELSE [buy |-> Quantile(scores, q_buy), sell |-> Quantile(scores, q_sell),
              n_used |-> Len(sub)]

\* The get_percentile_thresholds tool: always an ok = true result.
get_percentile_thresholds(frame0, ticker, q_buy, q_sell, start_date, end_date) ==
    LET frame == _compute_score_column(_ensure_features(frame0))
        th == _percentile_thresholds(frame, ticker, q_buy, q_sell, start_date, end_date)
    IN  [ok |-> TRUE,
         ticker |-> StripUpper(ticker),
         method |-> "percentile",
         q_buy |-> q_buy,
         q_sell |-> q_sell,
         start_date |-> start_date,
         end_date |-> end_date,
         buy_threshold |-> th.buy,
         sell_threshold |-> th.sell,
         n_used |-> th.n_used]

(***************************************************************************)
(* Aligner specification: Init draws the two inputs, Align merges them.    *)
(***************************************************************************)
Cells == Tickers \X Dates

\* The values a snapshot carries identify it: 100*ticker + 10*filed + column.
SnapshotValue(t, f, c) == 100 * TickerRank(t) + 10 * f + (IF c = "Assets" THEN 1 ELSE 2)

\* A snapshot either reports both concepts or lacks Revenues.
Snapshot(t, f, full) ==
    [ticker |-> t, filed |-> f,
     vals |-> [c \in ConceptSet |->
                 IF full \/ c = "Assets" THEN Some(SnapshotValue(t, f, c)) ELSE Null]]

DailyInputs ==
    LET sets == {S \in SUBSET Cells : S # {} /\ Cardinality(S) <= MaxRows}
        ordered(S) == sort_values(SeqOfSet({[ticker |-> c[1], date |-> c[2]] : c \in S}),
                                  "ticker_date")
    IN  {ordered(S) : S \in sets} \cup {Reverse(ordered(S)) : S \in sets}

\* fundamentals_wide_by_filed leaves one row per (ticker, filed), sorted.
WideInputs ==
    LET sets == {S \in SUBSET Cells : Cardinality(S) <= MaxSnaps}
        rows(S, P) == {Snapshot(c[1], c[2], c \in P) : c \in S}
    IN  UNION {{sort_values(SeqOfSet(rows(S, P)), "ticker_filed") : P \in SUBSET S}
               : S \in sets}

NormIdle ==
    /\ facts = <<>>
    /\ normalized = <<>>
    /\ renormalized = <<>>
    /\ norm_pc = "idle"

AlignIdle ==
    /\ daily = <<>>
    /\ wide_facts = <<>>
    /\ panel = <<>>
    /\ align_pc = "idle"
    /\ NormIdle

ServerIdle ==
    /\ panel_df = <<>>
    /\ request = <<>>
    /\ response = <<>>
    /\ server_pc = "idle"

TradeIdle ==
    /\ cfg = <<>>
    /\ cash = <<>>
    /\ shares_held = 0
    /\ prev_value = <<>>
    /\ trajectory = <<>>
    /\ trade_pc = "idle"
    /\ manager_json = <<>>

CacheIdle ==
    /\ panel_file = <<>>
    /\ now = 0
    /\ _PANEL_CACHE = <<>>
    /\ _PANEL_CACHE_MTIME = <<>>
    /\ caller = <<>>
    /\ served = <<>>
    /\ load_count = 0
    /\ access_count = 0

AlignInit ==
    /\ daily \in DailyInputs
    /\ wide_facts \in WideInputs
    /\ panel = <<>>
    /\ align_pc = "start"
    /\ NormIdle

Align ==
    /\ align_pc = "start"
    /\ panel' = merge_fundamentals_daily(daily, wide_facts)
    /\ align_pc' = "done"
    /\ UNCHANGED <<daily, wide_facts, normVars>>
    /\ UNCHANGED <<serverVars, tradeVars, cacheVars>>

InitAlign == AlignInit /\ ServerIdle /\ TradeIdle /\ CacheIdle
NextAlign == Align
SpecAlign == InitAlign /\ [][NextAlign]_vars


(***************************************************************************)
(* Normalizer specification: Init draws the loaded facts, the three steps  *)
(* run in the order of main, Renormalize runs them on their own output.    *)
(***************************************************************************)
FactDays == {1, 2}

\* What a raw fact can be, up to its value: Assets of AAA in either unit on
\* any filing and period day, Revenues of AAA in either unit, one fact of a
\* concept outside CONCEPTS, one fact of a second security, and two facts
\* whose value is not numeric.
FactKinds ==
    [ticker : {"AAA"}, concept : {"Assets"}, unit : Units, filed : FactDays,
     end : FactDays, numeric : {TRUE}]
    \cup [ticker : {"AAA"}, concept : {"Revenues"}, unit : Units, filed : {1},
          end : {1}, numeric : {TRUE}]
    \cup {[ticker |-> "AAA", concept |-> "Goodwill", unit |-> "USD", filed |-> 1,
           end |-> 1, numeric |-> TRUE],
          [ticker |-> "BBB", concept |-> "Assets", unit |-> "shares", filed |-> 1,
           end |-> 1, numeric |-> TRUE],
          [ticker |-> "AAA", concept |-> "Assets", unit |-> "USD", filed |-> 2,
           end |-> 2, numeric |-> FALSE],
          [ticker |-> "AAA", concept |-> "Revenues", unit |-> "USD", filed |-> 1,
           end |-> 1, numeric |-> FALSE]}

\* pd.to_numeric(df["value"], errors="coerce"): a numeric value is kept, and
\* is here the position of the fact in the file, which identifies it; any
\* other value becomes null. Facts with a null value are not dropped.
Fact(k, i) ==
    [ticker |-> k.ticker, concept |-> k.concept, unit |-> k.unit,
     filed |-> k.filed, end |-> k.end,
     value |-> IF k.numeric THEN Some(i) ELSE Null]

\* load_companyfacts returns the facts sorted on (ticker, concept, filed, end).
\* The stable sort leaves exactly the sequences in which no fact has a
\* smaller key than the fact before it.
FactsInputs ==
    LET by == "ticker_concept_filed_end"
        Ordered(f, n) ==
            \A i \in 1..(n - 1) : ~KeyLess(SortKey(f[i + 1], by), SortKey(f[i], by))
    IN  UNION {{[i \in 1..n |-> Fact(f[i], i)] :
                  f \in {g \in [1..n -> FactKinds] : Ordered(g, n)}} :
               n \in 0..MaxFacts}

NormInit ==
    /\ facts \in FactsInputs
    /\ normalized = <<>>
    /\ renormalized = <<>>
    /\ norm_pc = "loaded"

NormFrame ==
    /\ UNCHANGED <<daily, wide_facts, panel, align_pc>>
    /\ UNCHANGED <<serverVars, tradeVars, cacheVars>>

\* facts = filter_concepts(facts, CONCEPTS)
FilterConcepts ==
    /\ norm_pc = "loaded"
    /\ normalized' = filter_concepts(facts, ConceptSet)
    /\ norm_pc' = "filtered"
    /\ UNCHANGED <<facts, renormalized>>
    /\ NormFrame

\* facts = choose_single_unit(facts)
ChooseSingleUnit ==
    /\ norm_pc = "filtered"
    /\ normalized' = choose_single_unit(normalized)
    /\ norm_pc' = "single_unit"
    /\ UNCHANGED <<facts, renormalized>>
    /\ NormFrame

\* facts = keep_latest_per_filed_date(facts)
KeepLatestPerFiledDate ==
    /\ norm_pc = "single_unit"
    /\ normalized' = keep_latest_per_filed_date(normalized)
    /\ norm_pc' = "normalized"
    /\ UNCHANGED <<facts, renormalized>>
    /\ NormFrame

Renormalize ==
    /\ norm_pc = "normalized"
    /\ renormalized' = Normalizer(normalized)
    /\ norm_pc' = "renormalized"
    /\ UNCHANGED <<facts, normalized>>
    /\ NormFrame

\* wide = fundamentals_wide_by_filed(facts)
FundamentalsWideByFiled ==
    /\ norm_pc = "normalized"
    /\ wide_facts' = fundamentals_wide_by_filed(normalized)
    /\ norm_pc' = "wide"
    /\ UNCHANGED <<facts, normalized, renormalized>>
    /\ UNCHANGED <<daily, panel, align_pc>>
    /\ UNCHANGED <<serverVars, tradeVars, cacheVars>>

InitNormalize ==
    /\ NormInit
    /\ daily = <<>> /\ wide_facts = <<>> /\ panel = <<>> /\ align_pc = "idle"
    /\ ServerIdle /\ TradeIdle /\ CacheIdle
NextNormalize ==
    \/ FilterConcepts \/ ChooseSingleUnit \/ KeepLatestPerFiledDate
    \/ Renormalize \/ FundamentalsWideByFiled
SpecNormalize == InitNormalize /\ [][NextNormalize]_vars

(***************************************************************************)
(* Decision specification: _score_to_action on sampled floats              *)
(***************************************************************************)
FloatSamples == {NaN} \cup {Rat(k, 4) : k \in -2..2}

DecideInit ==
    /\ panel_df = <<>>
    /\ request = <<>>
    /\ response = <<>>
    /\ server_pc = "ready"

Decide ==
    /\ server_pc = "ready"
    /\ \E score \in FloatSamples, buy_th \in FloatSamples, sell_th \in FloatSamples :
         /\ request' = [op |-> "_score_to_action", score |-> score,
                        buy_th |-> buy_th, sell_th |-> sell_th]
         /\ response' = _score_to_action(score, buy_th, sell_th)
    /\ server_pc' = "done"
    /\ UNCHANGED panel_df
    /\ UNCHANGED <<alignVars, tradeVars, cacheVars>>

\* Scoring specification: Init draws a panel whose AAA row carries any pair of
\* (ret_20d, vol_20d); the score column is computed as the tools do on entry,
\* then one row is scored for a decision.
ScoreSamples == FloatSamples \cup {Int2F(-1), Int2F(2)}
ScoreRow(t, ret, vol) ==
    [ticker |-> t, date |-> Midnight(1), ret_1d |-> NaN, ret_5d |-> NaN,
     ret_20d |-> ret, vol_20d |-> vol]
ScoreFrames ==
    {[has_features |-> TRUE,
      rows |-> <<ScoreRow("AAA", ret, vol)>> \o other] :
        ret \in ScoreSamples, vol \in ScoreSamples,
        other \in {<<>>, <<ScoreRow("BBB", Rat(-1, 2), NaN)>>}}

ScoreInit ==
    /\ panel_df \in ScoreFrames
    /\ request = <<>>
    /\ response = <<>>
    /\ server_pc = "ready"

\* df = _compute_score_column(_ensure_features(_load_panel_cached()))
ComputeScoreColumn ==
    /\ server_pc = "ready"
    /\ panel_df' = _compute_score_column(_ensure_features(panel_df))
    /\ server_pc' = "scored"
    /\ UNCHANGED <<request, response>>
    /\ UNCHANGED <<alignVars, tradeVars, cacheVars>>

\* score, components = _heuristic_score(row)
HeuristicScore ==
    /\ server_pc = "scored"
    /\ \E i \in 1..Len(panel_df.rows) :
         /\ request' = [op |-> "_heuristic_score", row |-> panel_df.rows[i]]
         /\ response' = _heuristic_score(panel_df.rows[i])
    /\ server_pc' = "done"
    /\ UNCHANGED panel_df
    /\ UNCHANGED <<alignVars, tradeVars, cacheVars>>

InitScore == ScoreInit /\ AlignIdle /\ TradeIdle /\ CacheIdle
NextScore == ComputeScoreColumn \/ HeuristicScore
SpecScore == InitScore /\ [][NextScore]_vars

InitDecide == DecideInit /\ AlignIdle /\ TradeIdle /\ CacheIdle
NextDecide == Decide
SpecDecide == InitDecide /\ [][NextDecide]_vars


(***************************************************************************)
(* Live trading simulator (run_trading.py)                                 *)
(***************************************************************************)
BpsDivisor == 10000

\* A manager action is a string or None (Null).
normalise_action(x) ==
    IF x = "None" THEN "HOLD"
    ELSE IF StripUpper(x) \in {"BUY", "SELL", "HOLD"} THEN StripUpper(x)
    ELSE "HOLD"

clamp_target_position(x) == IF x = 1 THEN 1 ELSE 0

\* The holding left out of the value.
portfolio_value_cash_only(c, sh, price) == c

compute_portfolio_value(c, sh, price) == FAdd(c, FMul(Int2F(sh), price))

transaction_cost(price, shares_traded, bps) ==
    LET notional == FMul(Int2F(Abs(shares_traded)), price)
    IN  FMul(notional, FDiv(bps, Int2F(BpsDivisor)))

Traded(c, sh, cost, traded) ==
    [cash |-> c, shares_held |-> sh, cost |-> cost, shares_traded |-> traded]

\* all_in entering again while it already holds.
desired_shares_all_in_rebuys(c, sh, price, target_position, sizing) ==
    IF sizing = "all_in"
    THEN IF target_position = 1 THEN sh + Floor(FDiv(c, price)) ELSE 0
    ELSE IF target_position = 1 THEN 1 ELSE 0

\* Every name but one_share sized as all_in.
desired_shares_default_all_in(c, sh, price, target_position, sizing) ==
    IF sizing # "one_share"
    THEN IF target_position = 1
         THEN IF sh > 0 THEN sh ELSE Floor(FDiv(c, price))
         ELSE 0
    ELSE IF target_position = 1 THEN 1 ELSE 0

\* A flat target sized as one share short.
desired_shares_short(c, sh, price, target_position, sizing) ==
    IF sizing = "all_in"
    THEN IF target_position = 1
         THEN IF sh > 0 THEN sh ELSE Floor(FDiv(c, price))
         ELSE -1
    ELSE IF target_position = 1 THEN 1 ELSE -1

DesiredShares(c, sh, price, target_position, sizing) ==
    IF sizing = "all_in"
    THEN IF target_position = 1
         THEN IF sh > 0 THEN sh ELSE Floor(FDiv(c, price))
         ELSE 0
    ELSE IF target_position = 1 THEN 1 ELSE 0

apply_trade_no_reject(c, sh, price, target_position, sizing_type, bps) ==
    LET sizing == StripLower(IF sizing_type = "" THEN "one_share" ELSE sizing_type)
    IN  IF FLe(price, Zero) THEN Traded(c, sh, Zero, 0)
        ELSE
        LET desired_shares == DesiredShares(c, sh, price, target_position, sizing)
            shares_traded == desired_shares - sh
            cost == transaction_cost(price, shares_traded, bps)
        IN  IF shares_traded = 0 THEN Traded(c, sh, Zero, 0)
            ELSE IF shares_traded > 0
            THEN Traded(FSub(c, FAdd(FMul(Int2F(shares_traded), price), cost)),
                        sh + shares_traded, cost, shares_traded)
            ELSE Traded(FAdd(c, FSub(FMul(Int2F(Abs(shares_traded)), price), cost)),
                        sh + shares_traded, cost, shares_traded)

apply_trade(c, sh, price, target_position, sizing_type, bps) ==
    LET sizing == StripLower(IF sizing_type = "" THEN "one_share" ELSE sizing_type)
    IN  IF FLe(price, Zero) THEN Traded(c, sh, Zero, 0)
        ELSE
        LET desired_shares == DesiredShares(c, sh, price, target_position, sizing)
            shares_traded == desired_shares - sh
            cost == transaction_cost(price, shares_traded, bps)
            total_spend == FAdd(FMul(Int2F(shares_traded), price), cost)
            proceeds == FSub(FMul(Int2F(Abs(shares_traded)), price), cost)
        IN  IF shares_traded = 0 THEN Traded(c, sh, Zero, 0)
            ELSE IF shares_traded > 0
            THEN IF FGt(total_spend, c) THEN Traded(c, sh, Zero, 0)
                 ELSE Traded(FSub(c, total_spend), sh + shares_traded, cost, shares_traded)
            ELSE Traded(FAdd(c, proceeds), sh + shares_traded, cost, shares_traded)

\* The inputs of a run and of a day.
InitialCashSamples == {Int2F(0), Int2F(4)}
SizingSamples == {"one_share", "all_in", ""}
BpsSamples == {Int2F(0), Int2F(10000), Int2F(20000)}
PriceSamples == {Int2F(0), Int2F(1), Int2F(3)}
ManagerActions == {"BUY", "SELL", "HOLD", "buy ", "WAIT", "None"}

\* allow_short is read from the configuration and handed to the manager's
\* prompt; the simulator itself never consults it.
TradeConfigs ==
    [initial_cash : InitialCashSamples, sizing_type : SizingSamples,
     transaction_cost_bps : BpsSamples, allow_short : {FALSE}]
    \cup [initial_cash : {Int2F(4)}, sizing_type : {"one_share", "all_in"},
          transaction_cost_bps : {Int2F(0), Int2F(20000)}, allow_short : {TRUE}]

TradeInit ==
    /\ cfg \in TradeConfigs
    /\ cash = cfg.initial_cash
    /\ shares_held = 0
    /\ prev_value = Null
    /\ trajectory = <<>>
    /\ trade_pc = "loop"
    /\ manager_json = <<>>

\* A HOLD mapped to a flat position.
target_position_hold_flat(action, sh) ==
    IF action = "BUY" THEN 1 ELSE 0

\* The position the loop asks apply_trade for (lines 351-356).
TargetPosition(action, sh) ==
    IF action = "BUY" THEN 1
    ELSE IF action = "SELL" THEN 0
    ELSE IF sh > 0 THEN 1 ELSE 0

\* One iteration of the daily loop for a row with a price.
SimulateDay ==
    /\ trade_pc = "loop"
    /\ Len(trajectory) < MaxDays
    /\ \E price_today \in PriceSamples, manager_action \in ManagerActions,
          manager_target \in {0, 1} :
         LET action == normalise_action(manager_action)
             clamped == clamp_target_position(manager_target)
             target_position == TargetPosition(action, shares_held)
             t == apply_trade(cash, shares_held, price_today, target_position,
                              cfg.sizing_type, cfg.transaction_cost_bps)
             new_value == compute_portfolio_value(t.cash, t.shares_held, price_today)
         IN  /\ manager_json' = [action |-> manager_action,
                                   target_position |-> manager_target]
             /\ IF prev_value # Null /\ prev_value = Zero
                THEN \* new_value / prev_value raises ZeroDivisionError: the run aborts
                     /\ cash' = t.cash
                     /\ shares_held' = t.shares_held
                     /\ trade_pc' = "raised"
                     /\ UNCHANGED <<prev_value, trajectory>>
                ELSE /\ cash' = t.cash
                     /\ shares_held' = t.shares_held
                     /\ prev_value' = new_value
                     /\ trajectory' = Append(trajectory,
                           [price |-> price_today,
                            action |-> action,
                            shares_traded |-> t.shares_traded,
                            shares_held |-> t.shares_held,
                            transaction_cost |-> t.cost,
                            cash |-> t.cash,
                            portfolio_value |-> new_value,
                            portfolio_return_1d |->
                               IF prev_value = Null THEN Zero
                               ELSE FSub(FDiv(new_value, prev_value), One)])
                     /\ UNCHANGED trade_pc
    /\ UNCHANGED cfg
    /\ UNCHANGED <<alignVars, serverVars, cacheVars>>

InitTrade == TradeInit /\ AlignIdle /\ ServerIdle /\ CacheIdle
NextTrade == SimulateDay
SpecTrade == InitTrade /\ [][NextTrade]_vars

\* apply_trade on its own: Init draws the portfolio and the configuration,
\* one call is made with any price and target position; the same call with
\* sizing "one_share" is made next to it for comparison.
CallCashSamples == {Int2F(0), Int2F(4), Rat(7, 2)}
CallHeldSamples == {0, 1, 2}
CallSizingSamples == SizingSamples \cup {"ALL_IN ", "half"}
CallBpsSamples == BpsSamples \cup {Int2F(100)}
CallPriceSamples == PriceSamples \cup {Int2F(-1)}

ApplyTradeInit ==
    /\ cfg \in [initial_cash : CallCashSamples,
                sizing_type : CallSizingSamples,
                transaction_cost_bps : CallBpsSamples,
                allow_short : {FALSE}]
    /\ cash = cfg.initial_cash
    /\ shares_held \in CallHeldSamples
    /\ prev_value = Null
    /\ trajectory = <<>>
    /\ trade_pc = "call"
    /\ manager_json = <<>>

ApplyTrade ==
    /\ trade_pc = "call"
    /\ \E price \in CallPriceSamples, target_position \in {0, 1} :
         LET t == apply_trade(cash, shares_held, price, target_position,
                              cfg.sizing_type, cfg.transaction_cost_bps)
             d == apply_trade(cash, shares_held, price, target_position,
                              "one_share", cfg.transaction_cost_bps)
         IN  /\ cash' = t.cash
             /\ shares_held' = t.shares_held
             /\ trajectory' = <<[price |-> price, target_position |-> target_position,
                                 cash_before |-> cash, shares_before |-> shares_held,
                                 returned |-> t, as_one_share |-> d]>>
    /\ trade_pc' = "returned"
    /\ UNCHANGED <<cfg, prev_value, manager_json>>
    /\ UNCHANGED <<alignVars, serverVars, cacheVars>>

InitApplyTrade == ApplyTradeInit /\ AlignIdle /\ ServerIdle /\ CacheIdle
NextApplyTrade == ApplyTrade
SpecApplyTrade == InitApplyTrade /\ [][NextApplyTrade]_vars


(***************************************************************************)
(* Panel cache (mcp_trading_server.py, _load_panel_cached)                 *)
(***************************************************************************)
\* The CSV texts the panel file can hold, and the DataFrame read_csv and the
\* normalisation of lines 64-67 make of each.
Contents == {"csv_a", "csv_b"}
LoadCsv(content) == IF content = "csv_a" THEN "df_a" ELSE "df_b"

Absent == [exists |-> FALSE, mtime |-> 0, content |-> "none"]

\* _panel_mtime: the stat of the file, None when it cannot be read.
_panel_mtime(file) == IF file.exists THEN Some(file.mtime) ELSE Null

CacheInit ==
    /\ now = 1
    /\ panel_file \in {Absent} \cup
                      {[exists |-> TRUE, mtime |-> 1, content |-> c] : c \in Contents}
    /\ _PANEL_CACHE = Null
    /\ _PANEL_CACHE_MTIME = Null
    /\ load_count = 0
    /\ access_count = 0

\* The pipeline rewrites the panel file: new content, a later mtime.
WriteFile ==
    /\ now < MaxClock
    /\ now' = now + 1
    /\ \E c \in Contents :
         panel_file' = [exists |-> TRUE, mtime |-> now + 1, content |-> c]
    /\ UNCHANGED <<_PANEL_CACHE, _PANEL_CACHE_MTIME, caller, served, load_count,
                   access_count>>
    /\ UNCHANGED <<alignVars, serverVars, tradeVars>>

RemoveFile ==
    /\ panel_file.exists
    /\ panel_file' = Absent
    /\ UNCHANGED <<now, _PANEL_CACHE, _PANEL_CACHE_MTIME, caller, served, load_count,
                   access_count>>
    /\ UNCHANGED <<alignVars, serverVars, tradeVars>>

\* ---- one access run to completion (a single caller)
Loaded(cache, cache_mtime, ret, loads) ==
    [cache |-> cache, cache_mtime |-> cache_mtime, returned |-> ret, loads |-> loads]

load_panel_cached_keep_mtime(cache, cache_mtime, file) ==
    LET mtime == _panel_mtime(file)
    IN  IF cache # Null /\ cache_mtime = mtime
        THEN Loaded(cache, cache_mtime, Val(cache), 0)
        ELSE IF ~file.exists
        THEN Loaded(cache, cache_mtime, "FileNotFoundError", 0)
        ELSE Loaded(Some(LoadCsv(file.content)), cache_mtime, LoadCsv(file.content), 1)

_load_panel_cached(cache, cache_mtime, file) ==
    LET mtime == _panel_mtime(file)
    IN  IF cache # Null /\ cache_mtime = mtime
        THEN Loaded(cache, cache_mtime, Val(cache), 0)
        ELSE IF ~file.exists
        THEN Loaded(cache, cache_mtime, "FileNotFoundError", 0)
        ELSE Loaded(Some(LoadCsv(file.content)), mtime, LoadCsv(file.content), 1)

Access ==
    /\ access_count < MaxAccesses
    /\ LET r == _load_panel_cached(_PANEL_CACHE, _PANEL_CACHE_MTIME, panel_file)
       IN  /\ _PANEL_CACHE' = r.cache
           /\ _PANEL_CACHE_MTIME' = r.cache_mtime
           /\ served' = r.returned
           /\ load_count' = load_count + r.loads
    /\ access_count' = access_count + 1
    /\ UNCHANGED <<panel_file, now, caller>>
    /\ UNCHANGED <<alignVars, serverVars, tradeVars>>

InitCacheSeq == CacheInit /\ caller = <<>> /\ served = "none"
                /\ AlignIdle /\ ServerIdle /\ TradeIdle
NextCacheSeq == Access \/ WriteFile \/ RemoveFile
SpecCacheSeq == InitCacheSeq /\ [][NextCacheSeq]_vars


\* ---- concurrent callers: one step per statement, no lock
Callers == {"c1", "c2"}
\* A caller's frame: its position, its locals, and the clock at its stat.
IdleCaller == [pc |-> "idle", mtime |-> Null, df |-> "none", stat_at |-> 0]
Active == {c \in Callers : caller[c].pc # "idle"}

Goto(c, pc) == caller' = [caller EXCEPT ![c].pc = pc]

Return(c, value) ==
    /\ served' = [served EXCEPT ![c] = value]
    /\ access_count' = access_count + 1
    /\ caller' = [caller EXCEPT ![c] = IdleCaller]

CacheFrame == UNCHANGED <<alignVars, serverVars, tradeVars>>

Call(c) ==
    /\ caller[c].pc = "idle"
    /\ access_count + Cardinality(Active) < MaxAccesses
    /\ Goto(c, "L56")
    /\ UNCHANGED <<panel_file, now, _PANEL_CACHE, _PANEL_CACHE_MTIME, served,
                   load_count, access_count>>
    /\ CacheFrame

\* mtime = _panel_mtime()
L56(c) ==
    /\ caller[c].pc = "L56"
    /\ caller' = [caller EXCEPT ![c].pc = "L57", ![c].mtime = _panel_mtime(panel_file),
                                 ![c].stat_at = now]
    /\ UNCHANGED <<panel_file, now, _PANEL_CACHE, _PANEL_CACHE_MTIME, served,
                   load_count, access_count>>
    /\ CacheFrame

\* if _PANEL_CACHE is not None and _PANEL_CACHE_MTIME == mtime
L57(c) ==
    /\ caller[c].pc = "L57"
    /\ IF _PANEL_CACHE # Null /\ _PANEL_CACHE_MTIME = caller[c].mtime
       THEN Goto(c, "L58")
       ELSE Goto(c, "L60")
    /\ UNCHANGED <<panel_file, now, _PANEL_CACHE, _PANEL_CACHE_MTIME, served,
                   load_count, access_count>>
    /\ CacheFrame

\* return _PANEL_CACHE
L58(c) ==
    /\ caller[c].pc = "L58"
    /\ Return(c, Val(_PANEL_CACHE))
    /\ UNCHANGED <<panel_file, now, _PANEL_CACHE, _PANEL_CACHE_MTIME, load_count>>
    /\ CacheFrame

\* if not DATA_PANEL.exists(): raise FileNotFoundError
L60(c) ==
    /\ caller[c].pc = "L60"
    /\ IF panel_file.exists
       THEN Goto(c, "L64") /\ UNCHANGED <<served, access_count>>
       ELSE Return(c, "FileNotFoundError")
    /\ UNCHANGED <<panel_file, now, _PANEL_CACHE, _PANEL_CACHE_MTIME, load_count>>
    /\ CacheFrame

\* df = pd.read_csv(DATA_PANEL) and its normalisation (raises when the file
\* was removed after the check of line 60)
L64(c) ==
    /\ caller[c].pc = "L64"
    /\ IF panel_file.exists
       THEN /\ caller' = [caller EXCEPT ![c].pc = "L69",
                                        ![c].df = LoadCsv(panel_file.content)]
            /\ UNCHANGED <<served, access_count>>
       ELSE Return(c, "FileNotFoundError")
    /\ UNCHANGED <<panel_file, now, _PANEL_CACHE, _PANEL_CACHE_MTIME, load_count>>
    /\ CacheFrame

\* _PANEL_CACHE = df
L69(c) ==
    /\ caller[c].pc = "L69"
    /\ _PANEL_CACHE' = Some(caller[c].df)
    /\ Goto(c, "L70")
    /\ UNCHANGED <<panel_file, now, _PANEL_CACHE_MTIME, served, load_count, access_count>>
    /\ CacheFrame

\* _PANEL_CACHE_MTIME = mtime
L70(c) ==
    /\ caller[c].pc = "L70"
    /\ _PANEL_CACHE_MTIME' = caller[c].mtime
    /\ Goto(c, "L72")
    /\ UNCHANGED <<panel_file, now, _PANEL_CACHE, served, load_count, access_count>>
    /\ CacheFrame

\* logger.info("Loaded panel ..."); return df
L72(c) ==
    /\ caller[c].pc = "L72"
    /\ load_count' = load_count + 1
    /\ Return(c, caller[c].df)
    /\ UNCHANGED <<panel_file, now, _PANEL_CACHE, _PANEL_CACHE_MTIME>>
    /\ CacheFrame

InitCache == /\ CacheInit
             /\ caller = [c \in Callers |-> IdleCaller]
             /\ served = [c \in Callers |-> "none"]
             /\ AlignIdle /\ ServerIdle /\ TradeIdle
NextCache ==
    \/ WriteFile
    \/ RemoveFile
    \/ \E c \in Callers :
         \/ Call(c) \/ L56(c) \/ L57(c) \/ L58(c) \/ L60(c)
         \/ L64(c) \/ L69(c) \/ L70(c) \/ L72(c)
SpecCache == InitCache /\ [][NextCache]_vars


(***************************************************************************)
(* predict_action and backtest_heuristic                                   *)
(***************************************************************************)
\* The thresholds in force: resolved from the panel or the caller's literals.
Thresholds(frame, ticker, method, cfgth) ==
    IF method = "percentile"
    THEN LET th == _percentile_thresholds(frame, ticker, cfgth.q_buy, cfgth.q_sell,
                                          cfgth.start_date, cfgth.end_date)
         IN  [buy |-> th.buy, sell |-> th.sell, n_used |-> Some(th.n_used)]
    ELSE [buy |-> cfgth.buy_threshold, sell |-> cfgth.sell_threshold, n_used |-> Null]

ReportedThresholds(th, method, cfgth) ==
    [buy |-> th.buy, sell |-> th.sell,
     q_buy |-> IF method = "percentile" THEN Some(cfgth.q_buy) ELSE Null,
     q_sell |-> IF method = "percentile" THEN Some(cfgth.q_sell) ELSE Null,
     start_date |-> IF method = "percentile" THEN Some(cfgth.start_date) ELSE Null,
     end_date |-> IF method = "percentile" THEN Some(cfgth.end_date) ELSE Null]

predict_action_unclamped(frame0, ticker, date, cfgth) ==
    LET frame == _compute_score_column(_ensure_features(frame0))
        method == StripLower(cfgth.threshold_method)
        th == Thresholds(frame, ticker, method, cfgth)
        row == _get_row(frame, ticker, date)
    IN  IF row = Null THEN [ok |-> FALSE, error |-> "No row for ticker and date."]
        ELSE LET hs == _heuristic_score(Val(row))
             IN  [ok |-> TRUE,
                  ticker |-> StripUpper(ticker),
                  date |-> DateOf(Val(to_datetime(date))),
                  action |-> _score_to_action(hs.score, th.buy, th.sell),
                  score |-> hs.score,
                  confidence |-> FAbs(hs.score),
                  details |-> hs.components,
                  threshold_method |-> method,
                  thresholds |-> ReportedThresholds(th, method, cfgth),
                  n_used |-> th.n_used]

predict_action(frame0, ticker, date, cfgth) ==
    LET frame == _compute_score_column(_ensure_features(frame0))
        method == StripLower(cfgth.threshold_method)
        th == Thresholds(frame, ticker, method, cfgth)
        row == _get_row(frame, ticker, date)
    IN  IF row = Null THEN [ok |-> FALSE, error |-> "No row for ticker and date."]
        ELSE LET hs == _heuristic_score(Val(row))
             IN  [ok |-> TRUE,
                  ticker |-> StripUpper(ticker),
                  date |-> DateOf(Val(to_datetime(date))),
                  action |-> _score_to_action(hs.score, th.buy, th.sell),
                  score |-> hs.score,
                  confidence |-> FMin(One, FAbs(hs.score)),
                  details |-> hs.components,
                  threshold_method |-> method,
                  thresholds |-> ReportedThresholds(th, method, cfgth),
                  n_used |-> th.n_used]

Position(action) ==
    CASE action = "BUY" -> One [] action = "HOLD" -> Zero [] action = "SELL" -> Int2F(-1)

\* The position of a HOLD day carried over from the day before.
position_column_carry_over(action) ==
    LET F[i \in 0..Len(action)] ==
            IF i = 0 THEN <<>>
            ELSE Append(F[i - 1],
                        IF action[i] = "HOLD" /\ i > 1 THEN F[i - 1][i - 1]
                        ELSE Position(action[i]))
    IN  F[Len(action)]

\* sub["position"] = sub["action"].map(pos_map).astype(float)
PositionColumn(action) ==
    [i \in 1..Len(action) |-> Position(action[i])]

RECURSIVE CumProd(_,_)
CumProd(xs, acc) ==
    IF xs = <<>> THEN <<>>
    ELSE LET next == FMul(acc, Head(xs)) IN <<next>> \o CumProd(Tail(xs), next)

\* The metrics computed without fillna(0.0) on ret_1d.
backtest_report_no_fillna(sub, th, t, s, e, method, cfgth) ==
    LET n == Len(sub)
        action == [i \in 1..n |->
                     _score_to_action(_heuristic_score(sub[i]).score, th.buy, th.sell)]
        ret_1d == [i \in 1..n |-> sub[i].ret_1d]
        position == PositionColumn(action)
        strategy_ret_1d == [i \in 1..n |-> FMul(position[i], ret_1d[i])]
        equity == CumProd([i \in 1..n |-> FAdd(One, strategy_ret_1d[i])], One)
        mean == FDiv(FSum(strategy_ret_1d), Int2F(n))
        \* the population variance: daily_vol is its square root
        var == FDiv(FSum([i \in 1..n |-> FMul(FSub(strategy_ret_1d[i], mean),
                                              FSub(strategy_ret_1d[i], mean))]),
                    Int2F(n))
    IN  [ok |-> TRUE,
         ticker |-> t,
         start_date |-> DateOf(s),
         end_date |-> DateOf(e),
         threshold_method |-> method,
         thresholds |-> ReportedThresholds(th, method, cfgth),
         total_return |-> FSub(equity[n], One),
         daily_mean |-> mean,
         daily_vol |-> [sqrt_of |-> var],
         daily_sharpe_like |-> IF FGt(var, Zero)
                               THEN [mean |-> mean, over_sqrt_of |-> var]
                               ELSE [mean |-> Zero, over_sqrt_of |-> One],
         n_days |-> n]

\* The metrics of the rows in range, given the thresholds.
BacktestReport(sub, th, t, s, e, method, cfgth) ==
    LET n == Len(sub)
        action == [i \in 1..n |->
                     _score_to_action(_heuristic_score(sub[i]).score, th.buy, th.sell)]
        ret_1d == [i \in 1..n |-> IF isnan(sub[i].ret_1d) THEN Zero ELSE sub[i].ret_1d]
        position == PositionColumn(action)
        strategy_ret_1d == [i \in 1..n |-> FMul(position[i], ret_1d[i])]
        equity == CumProd([i \in 1..n |-> FAdd(One, strategy_ret_1d[i])], One)
        mean == FDiv(FSum(strategy_ret_1d), Int2F(n))
        \* the population variance: daily_vol is its square root
        var == FDiv(FSum([i \in 1..n |-> FMul(FSub(strategy_ret_1d[i], mean),
                                              FSub(strategy_ret_1d[i], mean))]),
                    Int2F(n))
    IN  [ok |-> TRUE,
         ticker |-> t,
         start_date |-> DateOf(s),
         end_date |-> DateOf(e),
         threshold_method |-> method,
         thresholds |-> ReportedThresholds(th, method, cfgth),
         total_return |-> FSub(equity[n], One),
         daily_mean |-> mean,
         daily_vol |-> [sqrt_of |-> var],
         daily_sharpe_like |-> IF FGt(var, Zero)
                               THEN [mean |-> mean, over_sqrt_of |-> var]
                               ELSE [mean |-> Zero, over_sqrt_of |-> One],
         n_days |-> n]

backtest_heuristic_raw_dates(frame0, ticker, start_date, end_date, cfgth) ==
    LET frame == _compute_score_column(_ensure_features(frame0))
        method == StripLower(cfgth.threshold_method)
        th == Thresholds(frame, ticker, method, cfgth)
        t == StripUpper(ticker)
        s == to_datetime(start_date)
        e == to_datetime(end_date)
    IN  IF s = NaT \/ e = NaT THEN [ok |-> FALSE, error |-> "Invalid dates."]
        ELSE LET sub == SelectSeq(frame.rows,
                           LAMBDA r : /\ r.ticker = t
                                      /\ r.date >= Val(s)
                                      /\ r.date <= Val(e))
             IN  IF sub = <<>> THEN [ok |-> FALSE, error |-> "No data in range."]
                 ELSE BacktestReport(sub, th, t, Val(s), Val(e), method, cfgth)

backtest_heuristic(frame0, ticker, start_date, end_date, cfgth) ==
    LET frame == _compute_score_column(_ensure_features(frame0))
        method == StripLower(cfgth.threshold_method)
        th == Thresholds(frame, ticker, method, cfgth)
        t == StripUpper(ticker)
        s == to_datetime(start_date)
        e == to_datetime(end_date)
    IN  IF s = NaT \/ e = NaT THEN [ok |-> FALSE, error |-> "Invalid dates."]
        ELSE LET sub == SelectSeq(frame.rows,
                           LAMBDA r : /\ r.ticker = t
                                      /\ r.date >= normalize(Val(s))
                                      /\ r.date <= normalize(Val(e)))
             IN  IF sub = <<>> THEN [ok |-> FALSE, error |-> "No data in range."]
                 ELSE BacktestReport(sub, th, t, normalize(Val(s)), normalize(Val(e)),
                                     method, cfgth)

(***************************************************************************)
(* Trading-tool specifications: Init draws the panel, one call is served.  *)
(***************************************************************************)
\* The values a panel row can carry: (ret_1d, ret_20d, vol_20d).
RowKind(k) ==
    CASE k = 1 -> [ret_1d |-> Rat(1, 10),  ret_20d |-> Rat(1, 2),   vol_20d |-> Rat(1, 4)]
      [] k = 2 -> [ret_1d |-> Rat(-1, 10), ret_20d |-> Rat(-1, 10), vol_20d |-> Rat(1, 2)]
      [] k = 3 -> [ret_1d |-> NaN,         ret_20d |-> NaN,         vol_20d |-> Zero]
      [] k = 4 -> [ret_1d |-> Rat(1, 5),   ret_20d |-> Rat(-1, 2),  vol_20d |-> NaN]
      [] k = 5 -> [ret_1d |-> Rat(1, 10),  ret_20d |-> Int2F(-1),   vol_20d |-> One]
      [] k = 6 -> [ret_1d |-> Rat(1, 10),  ret_20d |-> Zero,        vol_20d |-> One]
      [] k = 7 -> [ret_1d |-> Rat(1, 10),  ret_20d |-> One,         vol_20d |-> One]
KindsOf(t) == IF t = "AAA" THEN {1, 2, 3} ELSE {4}

\* A row as _load_panel_cached leaves it; a file without the rolling columns
\* carries no ret_20d / vol_20d (NaN until _ensure_features fills them).
PanelRow(c, k, has_features) ==
    [ticker |-> c[1], date |-> Midnight(c[2]), ret_1d |-> RowKind(k).ret_1d,
     ret_5d |-> IF has_features THEN RowKind(k).ret_1d ELSE NaN,
     ret_20d |-> IF has_features THEN RowKind(k).ret_20d ELSE NaN,
     vol_20d |-> IF has_features THEN RowKind(k).vol_20d ELSE NaN]

PanelFrames ==
    LET sets == {S \in SUBSET Cells : Cardinality(S) <= MaxPanelRows}
        kinds(S) == {f \in [S -> 1..4] : \A c \in S : f[c] \in KindsOf(c[1])}
        frame(S, f, hf) ==
            [has_features |-> hf,
             rows |-> sort_values(SeqOfSet({PanelRow(c, f[c], hf) : c \in S}),
                                  "ticker_date")]
    IN  UNION {{frame(S, f, hf) : f \in kinds(S), hf \in BOOLEAN} : S \in sets}

TickerArgs == {" aaa", "BBB"}
DateArgs == {<<"garbage">>, <<"date", 1, 1>>} \cup {<<"date", d, 0>> : d \in Dates}

QuantilePairs == {<<Rat(7, 10), Rat(3, 10)>>, <<Rat(1, 2), Rat(1, 2)>>}
FitWindows == {<<<<"date", 1, 0>>, <<"date", MaxDate, 0>>>>,
               <<<<"garbage">>, <<"date", 2, 0>>>>}

ThresholdConfig(method, buy, sell, q, w) ==
    [threshold_method |-> method, buy_threshold |-> buy, sell_threshold |-> sell,
     q_buy |-> q[1], q_sell |-> q[2], start_date |-> w[1], end_date |-> w[2]]

DefaultQ == <<Rat(7, 10), Rat(3, 10)>>
DefaultWindow == <<<<"date", 1, 0>>, <<"date", MaxDate, 0>>>>

ThresholdConfigs ==
    {ThresholdConfig("fixed", DefaultBuy, DefaultSell, DefaultQ, DefaultWindow),
     ThresholdConfig("fixed", DefaultSell, DefaultBuy, DefaultQ, DefaultWindow),
     ThresholdConfig("PERCENTILE ", DefaultBuy, DefaultSell, DefaultQ, DefaultWindow)}
    \cup {ThresholdConfig("percentile", DefaultBuy, DefaultSell, q, w) :
            q \in QuantilePairs, w \in FitWindows}

ServerInit ==
    /\ panel_df \in PanelFrames
    /\ request = <<>>
    /\ response = <<>>
    /\ server_pc = "ready"

PredictAction ==
    /\ server_pc = "ready"
    /\ \E ticker \in TickerArgs, date \in DateArgs, cfgth \in ThresholdConfigs :
         /\ request' = [op |-> "predict_action", ticker |-> ticker, date |-> date,
                        thresholds |-> cfgth]
         /\ response' = predict_action(panel_df, ticker, date, cfgth)
    /\ server_pc' = "done"
    /\ UNCHANGED panel_df
    /\ UNCHANGED <<alignVars, tradeVars, cacheVars>>

BacktestHeuristic ==
    /\ server_pc = "ready"
    /\ \E ticker \in TickerArgs, start_date \in DateArgs, end_date \in DateArgs,
          cfgth \in ThresholdConfigs :
         /\ request' = [op |-> "backtest_heuristic", ticker |-> ticker,
                        start_date |-> start_date, end_date |-> end_date,
                        thresholds |-> cfgth]
         /\ response' = backtest_heuristic(panel_df, ticker, start_date, end_date, cfgth)
    /\ server_pc' = "done"
    /\ UNCHANGED panel_df
    /\ UNCHANGED <<alignVars, tradeVars, cacheVars>>

\* Panels for the threshold resolver: rows of AAA on any set of days, each
\* with a score of -1, 0, 1 or no score, and possibly a scored row of BBB.
ScoreKinds == {3, 5, 6, 7}
ThresholdFrames ==
    LET frame(D, f, other) ==
            [has_features |-> TRUE,
             rows |-> sort_values(
                         SeqOfSet({PanelRow(<<"AAA", d>>, f[d], TRUE) : d \in D}
                                  \cup {PanelRow(<<"BBB", 1>>, 7, TRUE) : x \in other}),
                         "ticker_date")]
    IN  UNION {{frame(D, f, other) : f \in [D -> ScoreKinds], other \in {{}, {1}}} :
               D \in SUBSET Dates}

FitStartArgs == {<<"garbage">>, <<"">>, <<"date", 1, 0>>, <<"date", 2, 1>>}
FitEndArgs == {<<"garbage">>, <<"date", 2, 0>>, <<"date", MaxDate, 0>>}
FitQuantiles == {<<Rat(1, 2), Rat(1, 2)>>, <<Rat(7, 10), Rat(3, 10)>>,
                 <<Rat(1, 4), Rat(1, 4)>>}

ThresholdsInit ==
    /\ panel_df \in ThresholdFrames
    /\ request = <<>>
    /\ response = <<>>
    /\ server_pc = "ready"

GetPercentileThresholds ==
    /\ server_pc = "ready"
    /\ \E ticker \in TickerArgs, q \in FitQuantiles,
          start_date \in FitStartArgs, end_date \in FitEndArgs :
         /\ request' = [op |-> "get_percentile_thresholds", ticker |-> ticker,
                        q_buy |-> q[1], q_sell |-> q[2],
                        start_date |-> start_date, end_date |-> end_date]
         /\ response' = get_percentile_thresholds(panel_df, ticker, q[1], q[2],
                                                  start_date, end_date)
    /\ server_pc' = "done"
    /\ UNCHANGED panel_df
    /\ UNCHANGED <<alignVars, tradeVars, cacheVars>>

InitServer == ServerInit /\ AlignIdle /\ TradeIdle /\ CacheIdle
\* Panels without the rolling columns: up to two rows of AAA and then up to
\* MaxFeatureRows rows of BBB, on consecutive days, each with a return or none.
RetSamples == {NaN, Rat(1, 10), Rat(-1, 5)}
FeatureRow(t, d, ret) ==
    [ticker |-> t, date |-> Midnight(d), ret_1d |-> ret,
     ret_5d |-> NaN, ret_20d |-> NaN, vol_20d |-> NaN]
FeatureFrames ==
    {[has_features |-> FALSE,
      rows |-> [i \in 1..Len(a) |-> FeatureRow("AAA", i, a[i])]
               \o [i \in 1..Len(b) |-> FeatureRow("BBB", i, b[i])]] :
        a \in UNION {[1..n -> RetSamples] : n \in 0..2},
        b \in UNION {[1..n -> RetSamples] : n \in 0..MaxFeatureRows}}

FeaturesInit ==
    /\ panel_df \in FeatureFrames
    /\ request = <<>>
    /\ response = <<>>
    /\ server_pc = "ready"

EnsureFeatures ==
    /\ server_pc = "ready"
    /\ request' = [op |-> "_ensure_features"]
    /\ response' = _ensure_features(panel_df)
    /\ server_pc' = "done"
    /\ UNCHANGED panel_df
    /\ UNCHANGED <<alignVars, tradeVars, cacheVars>>

InitFeatures == FeaturesInit /\ AlignIdle /\ TradeIdle /\ CacheIdle
NextFeatures == EnsureFeatures
SpecFeatures == InitFeatures /\ [][NextFeatures]_vars

InitThresholds == ThresholdsInit /\ AlignIdle /\ TradeIdle /\ CacheIdle
NextThresholds == GetPercentileThresholds
SpecThresholds == InitThresholds /\ [][NextThresholds]_vars
NextPredict == PredictAction
SpecPredict == InitServer /\ [][NextPredict]_vars
NextBacktest == BacktestHeuristic
SpecBacktest == InitServer /\ [][NextBacktest]_vars

(***************************************************************************)
(* Properties of the aligner                                               *)
(***************************************************************************)
PanelIdx == 1..Len(panel)
WideIdx == 1..Len(wide_facts)
DailyIdx == 1..Len(daily)

\* The snapshots of ticker t filed on or before day d.
Eligible(t, d) == {j \in WideIdx : wide_facts[j].ticker = t /\ wide_facts[j].filed <= d}
SnapshotsOf(t) == {j \in WideIdx : wide_facts[j].ticker = t}

\* C1: no lookahead. Whenever a panel row carries a filed date it is not
\* later than the row's trade date, and every value attached to the row is a
\* value of a snapshot of that security filed on or before the trade date.
C1_NoLookahead ==
    align_pc = "done" =>
        \A i \in PanelIdx :
            /\ ~IsNull(panel[i].filed) => Val(panel[i].filed) <= panel[i].date
            /\ \A c \in ConceptSet :
                 ~IsNull(panel[i].vals[c]) =>
                    \E j \in Eligible(panel[i].ticker, panel[i].date) :
                        wide_facts[j].vals[c] = panel[i].vals[c]

\* A row that has fundamentals attached although a later filing of the same
\* security exists in the input.
C1_Witness ==
    /\ align_pc = "done"
    /\ \E i \in PanelIdx :
         /\ ~IsNull(panel[i].filed)
         /\ \E j \in SnapshotsOf(panel[i].ticker) : wide_facts[j].filed > panel[i].date

\* C2: the panel has exactly one row per (security, trade_date) of the daily
\* input: the same number of rows, and per (security, date) as many panel
\* rows as return rows.
C2_RowPerCalendarRow ==
    align_pc = "done" =>
        /\ Len(panel) = Len(daily)
        /\ \A t \in Tickers, d \in Dates :
             Cardinality({i \in PanelIdx : panel[i].ticker = t /\ panel[i].date = d})
               = Cardinality({i \in DailyIdx : daily[i].ticker = t /\ daily[i].date = d})

\* A security with snapshots has a return row that precedes all of them, next
\* to a row that is matched.
C2_Witness ==
    /\ align_pc = "done"
    /\ \E i, k \in DailyIdx :
         /\ daily[i].ticker = daily[k].ticker
         /\ SnapshotsOf(daily[i].ticker) # {}
         /\ Eligible(daily[i].ticker, daily[i].date) = {}
         /\ Eligible(daily[k].ticker, daily[k].date) # {}
    /\ Len(panel) = Len(daily)

\* C3: a row with an eligible snapshot carries the filed date and the values
\* of the eligible snapshot with the greatest filed date (a filing made on the
\* trade date is eligible); a row without one carries nulls.
C3_GreatestEligibleSnapshot ==
    align_pc = "done" =>
        \A i \in PanelIdx :
            LET r == panel[i]
                E == Eligible(r.ticker, r.date)
            IN  IF E = {}
                THEN IsNull(r.filed) /\ r.vals = AllNaN
                ELSE \E j \in E :
                        /\ \A k \in E : wide_facts[k].filed <= wide_facts[j].filed
                        /\ r.filed = Some(wide_facts[j].filed)
                        /\ r.vals = wide_facts[j].vals

\* A row matched to a snapshot filed on its own trade date, with an earlier
\* snapshot of the security passed over.
C3_Witness ==
    /\ align_pc = "done"
    /\ \E i \in PanelIdx :
         /\ panel[i].filed = Some(panel[i].date)
         /\ Cardinality(Eligible(panel[i].ticker, panel[i].date)) >= 2

\* C4: a security of the daily input that has no snapshot keeps all of its
\* rows, each with a null filed date and null concept values.
C4_NoFactsSecurityKept ==
    align_pc = "done" =>
        \A t \in Tickers :
            SnapshotsOf(t) = {} =>
                /\ \A i \in DailyIdx :
                     daily[i].ticker = t =>
                        \E k \in PanelIdx :
                            panel[k] = [ticker |-> t, date |-> daily[i].date,
                                        filed |-> Null, vals |-> AllNaN]
                /\ Cardinality({k \in PanelIdx : panel[k].ticker = t})
                     = Cardinality({i \in DailyIdx : daily[i].ticker = t})

\* A security without snapshots is aligned next to one that has some.
C4_Witness ==
    /\ align_pc = "done"
    /\ \E t, u \in Tickers :
         /\ SnapshotsOf(t) = {}
         /\ \E i \in PanelIdx : panel[i].ticker = t
         /\ SnapshotsOf(u) # {}
         /\ \E i \in PanelIdx : panel[i].ticker = u

(***************************************************************************)
(* Properties of the decision function                                     *)
(***************************************************************************)
Decided == server_pc = "done" /\ request.op = "_score_to_action"

\* score >= th and score <= th on the fractions, false when either is NaN.
AtLeast(x, th) == x # NaN /\ th # NaN /\ x[1] * th[2] >= th[1] * x[2]
AtMost(x, th) == x # NaN /\ th # NaN /\ x[1] * th[2] <= th[1] * x[2]

\* C5: the decision is total and ordered: BUY exactly when score >= buy
\* threshold, SELL exactly when that fails and score <= sell threshold, HOLD
\* otherwise; so score = buy_threshold gives BUY, and score = sell_threshold
\* below buy_threshold gives SELL.
C5_DecisionRule ==
    Decided =>
        /\ response \in {"BUY", "SELL", "HOLD"}
        /\ response = "BUY" <=> AtLeast(request.score, request.buy_th)
        /\ response = "SELL" <=> /\ ~AtLeast(request.score, request.buy_th)
                                 /\ AtMost(request.score, request.sell_th)
        /\ (request.score # NaN /\ request.score = request.buy_th) => response = "BUY"
        /\ (/\ request.score # NaN
            /\ request.score = request.sell_th
            /\ ~AtLeast(request.score, request.buy_th)) => response = "SELL"

\* A score on the buy boundary that also satisfies the sell test: BUY wins.
C5_Witness ==
    /\ Decided
    /\ request.score # NaN
    /\ request.score = request.buy_th
    /\ AtMost(request.score, request.sell_th)
    /\ response = "BUY"

(***************************************************************************)
(* Properties of the live trading simulator                                *)
(***************************************************************************)
RunActive == trade_pc \in {"loop", "raised"}
EventIdx == 1..Len(trajectory)

\* Cash and holding before the i-th simulated day.
CashBefore(i) == IF i = 1 THEN cfg.initial_cash ELSE trajectory[i - 1].cash
SharesBefore(i) == IF i = 1 THEN 0 ELSE trajectory[i - 1].shares_held

\* The shares the i-th day's decision asks to buy (> 0) or sell (< 0), and
\* what the purchase would cost including the transaction cost.
SharesWanted(i) ==
    LET ev == trajectory[i]
        sizing == StripLower(IF cfg.sizing_type = "" THEN "one_share" ELSE cfg.sizing_type)
    IN  DesiredShares(CashBefore(i), SharesBefore(i), ev.price,
                      TargetPosition(ev.action, SharesBefore(i)), sizing)
          - SharesBefore(i)
SpendWanted(i) ==
    LET notional == FMul(Int2F(SharesWanted(i)), trajectory[i].price)
    IN  FAdd(notional, FDiv(FMul(notional, cfg.transaction_cost_bps), Int2F(10000)))

UnaffordableBuy(i) ==
    /\ FGt(trajectory[i].price, Zero)
    /\ SharesWanted(i) > 0
    /\ FGt(SpendWanted(i), CashBefore(i))

\* A buy that costs more than the available cash changes nothing.
BuyRejectedInFull ==
    \A i \in EventIdx :
        UnaffordableBuy(i) =>
            /\ trajectory[i].cash = CashBefore(i)
            /\ trajectory[i].shares_held = SharesBefore(i)
            /\ trajectory[i].shares_traded = 0
            /\ trajectory[i].transaction_cost = Zero

\* C6 as stated: for every non-negative transaction_cost_bps cash is never
\* negative, and an unaffordable buy is rejected in full.
C6_CashNeverNegativeAnyBps ==
    RunActive => FGe(cash, Zero) /\ BuyRejectedInFull

\* C6 amended: for transaction_cost_bps between 0 and 10000 (a cost of at
\* most the traded notional) cash is never negative; for every non-negative
\* transaction_cost_bps an unaffordable buy is rejected in full.
C6_CashNeverNegative ==
    RunActive =>
        /\ FLe(cfg.transaction_cost_bps, Int2F(10000)) => FGe(cash, Zero)
        /\ BuyRejectedInFull

\* A run with a positive cost rate of at most 100% in which a share was
\* bought and a later buy was rejected for lack of cash.
C6_Witness ==
    /\ RunActive
    /\ FGt(cfg.transaction_cost_bps, Zero)
    /\ FLe(cfg.transaction_cost_bps, Int2F(10000))
    /\ \E i, k \in EventIdx :
         /\ i < k
         /\ trajectory[i].shares_traded > 0
         /\ UnaffordableBuy(k)
         /\ trajectory[k].shares_traded = 0

(***************************************************************************)
(* Properties of the panel cache                                           *)
(***************************************************************************)
AccessStep == access_count' = access_count + 1
CacheHit == _PANEL_CACHE # Null /\ _PANEL_CACHE_MTIME = _panel_mtime(panel_file)

\* C7: with accesses and file writes taken one at a time, an access to an
\* existing file whose mtime differs from the stored timestamp (or with no
\* cached panel) reloads: it replaces the cached panel and the stored
\* timestamp and returns the content of the file; an access while the mtime
\* equals the stored timestamp returns the cached panel and loads nothing.
C7_ReloadOnMtimeChange ==
    [][(AccessStep /\ panel_file.exists) =>
          IF CacheHit
          THEN /\ served' = Val(_PANEL_CACHE)
               /\ load_count' = load_count
               /\ _PANEL_CACHE' = _PANEL_CACHE
               /\ _PANEL_CACHE_MTIME' = _PANEL_CACHE_MTIME
          ELSE /\ load_count' = load_count + 1
               /\ _PANEL_CACHE' = Some(LoadCsv(panel_file.content))
               /\ _PANEL_CACHE_MTIME' = Some(panel_file.mtime)
               /\ served' = LoadCsv(panel_file.content)]_vars

\* The file was loaded, rewritten and reloaded, and one access was a hit.
C7_Witness ==
    /\ load_count >= 2
    /\ access_count = load_count + 1
    /\ panel_file.exists
    /\ _PANEL_CACHE_MTIME = Some(panel_file.mtime)
    /\ served = LoadCsv(panel_file.content)

\* C8: with concurrent callers, whenever the stored timestamp equals the
\* current mtime of the file, the cached panel is the content of that file.
C8_TimestampCurrentImpliesPanelCurrent ==
    (panel_file # <<>> /\ panel_file.exists /\ CacheHit) =>
        Val(_PANEL_CACHE) = LoadCsv(panel_file.content)

(***************************************************************************)
(* Properties of predict_action and backtest_heuristic                     *)
(***************************************************************************)
Predicted == server_pc = "done" /\ request.op = "predict_action"
Backtested == server_pc = "done" /\ request.op = "backtest_heuristic"

PanelRowIdx == 1..Len(panel_df.rows)
Requested == StripUpper(request.ticker)
IsDate(x) == x[1] = "date"
DayOf(x) == x[2]                 \* the calendar day a date string names
RowDay(i) == panel_df.rows[i].date \div 2

\* The panel has a row for the requested (security, date).
RowRequested ==
    /\ IsDate(request.date)
    /\ \E i \in PanelRowIdx :
         /\ panel_df.rows[i].ticker = Requested
         /\ RowDay(i) = DayOf(request.date)

\* C9: predict_action answers {ok: false, error} when the panel has no row
\* for the requested (security, date), whichever threshold method is asked
\* for; when the row exists it answers ok = true with confidence =
\* min(1, |score|), which lies in [0, 1].
C9_PredictStructuredResult ==
    Predicted =>
        IF RowRequested
        THEN /\ response.ok
             /\ response.confidence =
                  (IF AtLeast(FAbs(response.score), One) THEN One ELSE FAbs(response.score))
             /\ AtLeast(response.confidence, Zero)
             /\ AtMost(response.confidence, One)
        ELSE /\ ~response.ok
             /\ DOMAIN response = {"ok", "error"}

\* No row for the requested date although the security has scored rows and
\* the thresholds are fitted from them.
C9_Witness ==
    /\ Predicted
    /\ ~RowRequested
    /\ IsDate(request.date)
    /\ request.thresholds.threshold_method = "percentile"
    /\ \E i \in PanelRowIdx :
         /\ panel_df.rows[i].ticker = Requested
         /\ panel_df.has_features
         /\ ~isnan(panel_df.rows[i].vol_20d)
    /\ ~response.ok

\* The rows of the requested security inside the inclusive day range.
InRange ==
    {i \in PanelRowIdx :
        /\ panel_df.rows[i].ticker = Requested
        /\ DayOf(request.start_date) <= RowDay(i)
        /\ RowDay(i) <= DayOf(request.end_date)}

\* C10: backtest_heuristic answers {ok: false, error} when a date is
\* unparsable or no row of the security lies in [start, end] (so also when
\* start > end); otherwise ok = true and n_days is the number of rows of the
\* security whose date lies in the inclusive range.
C10_BacktestStructuredResult ==
    Backtested =>
        IF ~IsDate(request.start_date) \/ ~IsDate(request.end_date)
        THEN ~response.ok /\ DOMAIN response = {"ok", "error"}
        ELSE IF InRange = {}
        THEN ~response.ok /\ DOMAIN response = {"ok", "error"}
        ELSE response.ok /\ response.n_days = Cardinality(InRange)

\* A backtest that starts at noon of a day that has a row, counts that row
\* and leaves out another row of the security.
C10_Witness ==
    /\ Backtested
    /\ response.ok
    /\ request.start_date[3] = 1
    /\ \E i \in InRange : RowDay(i) = DayOf(request.start_date)
    /\ \E i \in PanelRowIdx : panel_df.rows[i].ticker = Requested /\ i \notin InRange

(***************************************************************************)
(* Properties of the threshold resolver                                    *)
(***************************************************************************)
ThresholdsServed == server_pc = "done" /\ request.op = "get_percentile_thresholds"
FitParsed == IsDate(request.start_date) /\ IsDate(request.end_date)

\* Row i of the panel carries a score: a return over a non-zero volatility.
HasScore(i) ==
    /\ panel_df.rows[i].ret_20d # NaN
    /\ panel_df.rows[i].vol_20d # NaN
    /\ panel_df.rows[i].vol_20d # Zero
RowScore(i) == FDiv(panel_df.rows[i].ret_20d, panel_df.rows[i].vol_20d)

\* The scored rows of the requested security inside the inclusive window.
InFitWindow ==
    {i \in PanelRowIdx :
        /\ panel_df.rows[i].ticker = Requested
        /\ DayOf(request.start_date) <= RowDay(i)
        /\ RowDay(i) <= DayOf(request.end_date)
        /\ HasScore(i)}

\* C11: for a fitting window whose two dates parse, the resolver returns the
\* fallback (buy 0.25, sell -0.25) with n_used = 0 exactly when no scored row
\* of the security lies inside the inclusive window; otherwise n_used is the
\* number of such rows and both thresholds lie among their scores, so rows
\* of other securities contribute nothing.
C11_FallbackExactlyWhenNoScores ==
    (ThresholdsServed /\ FitParsed) =>
        /\ response.n_used = Cardinality(InFitWindow)
        /\ (InFitWindow = {}) <=> (response.n_used = 0)
        /\ InFitWindow = {} =>
              /\ response.buy_threshold = Rat(1, 4)
              /\ response.sell_threshold = Rat(-1, 4)
        /\ InFitWindow # {} =>
              \A th \in {response.buy_threshold, response.sell_threshold} :
                 /\ \E i \in InFitWindow : AtMost(RowScore(i), th)
                 /\ \E i \in InFitWindow : AtLeast(RowScore(i), th)

\* One scored row of the security in the window, another one outside it, an
\* unscored one inside it, and a scored row of another security inside it.
C11_Witness ==
    /\ ThresholdsServed
    /\ FitParsed
    /\ response.n_used = 1
    /\ \E i, j, k \in PanelRowIdx :
         /\ i \in InFitWindow
         /\ panel_df.rows[j].ticker = Requested /\ HasScore(j) /\ j \notin InFitWindow
         /\ panel_df.rows[k].ticker = Requested /\ ~HasScore(k)
         /\ DayOf(request.start_date) <= RowDay(k) /\ RowDay(k) <= DayOf(request.end_date)
    /\ \E o \in PanelRowIdx :
         /\ panel_df.rows[o].ticker # Requested
         /\ HasScore(o)
         /\ DayOf(request.start_date) <= RowDay(o) /\ RowDay(o) <= DayOf(request.end_date)
         /\ \A i \in InFitWindow : RowScore(o) # RowScore(i)

\* The date strings a served request carries and the operation reads.
Unparsable(x) == x[1] = "garbage"
FitDatesOf(cfgth) ==
    IF StripLower(cfgth.threshold_method) = "percentile"
    THEN {cfgth.start_date, cfgth.end_date} ELSE {}
DatesGiven ==
    CASE request.op = "get_percentile_thresholds" ->
            {request.start_date, request.end_date}
      [] request.op = "predict_action" ->
            {request.date} \cup FitDatesOf(request.thresholds)
      [] request.op = "backtest_heuristic" ->
            {request.start_date, request.end_date} \cup FitDatesOf(request.thresholds)
      [] OTHER -> {}

\* C12: a request that carries an unparsable date string, as the date of
\* predict_action, the range of backtest_heuristic or a bound of the
\* threshold-fitting window, is answered with ok = false.
C12_UnparsableDateIsError ==
    (server_pc = "done" /\ \E x \in DatesGiven : Unparsable(x)) => ~response.ok

(***************************************************************************)
(* Properties of the panel cache when the file is absent                   *)
(***************************************************************************)
\* Caller c returns from _load_panel_cached in this step.
Returns(c) == caller[c].pc # "idle" /\ caller'[c].pc = "idle"

\* The file was absent at the caller's stat and has not been written since.
AbsentThroughout(c) ==
    caller[c].mtime = Null /\ caller[c].stat_at = now /\ ~panel_file.exists

\* C13: an access during which the panel file is absent (its stat fails and
\* the file is not written before it returns) ends in FileNotFoundError, also when a
\* panel is cached, and leaves the cached panel and the stored timestamp as
\* they were.
C13_AbsentFileRaises ==
    [][\A c \in Callers :
          (Returns(c) /\ AbsentThroughout(c)) =>
              /\ served'[c] = "FileNotFoundError"
              /\ UNCHANGED <<_PANEL_CACHE, _PANEL_CACHE_MTIME>>]_vars

(***************************************************************************)
(* Properties of the fact normalizer                                       *)
(***************************************************************************)
FactIdx == 1..Len(facts)
NormIdx == 1..Len(normalized)
Tracked(r) == r.concept \in {"Assets", "Revenues"}

\* C14: the normalizer applied to its own output returns that output: the
\* same rows in the same order, so the same unit per (security, concept) and
\* the same single fact per (security, concept, filed date).
C14_NormalizerIdempotent ==
    norm_pc = "renormalized" => renormalized = normalized

\* The first pass had facts to discard: an untracked concept or a minority
\* unit, and several facts of one (security, concept, filed date).
C14_Witness ==
    /\ norm_pc = "renormalized"
    /\ Len(normalized) >= 1
    /\ Len(normalized) + 2 <= Len(facts)
    /\ \E i, j \in FactIdx :
         /\ i # j
         /\ Tracked(facts[i])
         /\ <<facts[i].ticker, facts[i].concept, facts[i].unit, facts[i].filed>>
              = <<facts[j].ticker, facts[j].concept, facts[j].unit, facts[j].filed>>
    /\ \E i \in FactIdx :
         \/ ~Tracked(facts[i])
         \/ \E j \in FactIdx : /\ facts[i].ticker = facts[j].ticker
                                /\ facts[i].concept = facts[j].concept
                                /\ facts[i].unit # facts[j].unit

(***************************************************************************)
(* Conservation of value in the live trading simulator                     *)
(***************************************************************************)
OneShareZeroCost ==
    /\ cfg.sizing_type \in {"one_share", ""}
    /\ cfg.transaction_cost_bps = Zero

PositivePricesUpTo(i) == \A k \in 1..i : FGt(trajectory[k].price, Zero)

\* The sum, over the days 2..i, of the shares held across the price change
\* times that change.
RECURSIVE HeldGain(_)
HeldGain(i) ==
    IF i <= 1 THEN Zero
    ELSE FAdd(HeldGain(i - 1),
              FMul(Int2F(trajectory[i - 1].shares_held),
                   FSub(trajectory[i].price, trajectory[i - 1].price)))

\* C15: in one_share mode with zero transaction cost and positive prices
\* the portfolio value recorded on day i is the initial cash plus the sum of
\* shares held times price change over the days before; trading itself
\* neither creates nor loses value.
C15_ValueConserved ==
    (RunActive /\ OneShareZeroCost) =>
        \A i \in EventIdx :
            PositivePricesUpTo(i) =>
                /\ trajectory[i].portfolio_value = FAdd(cfg.initial_cash, HeldGain(i))
                /\ trajectory[i].portfolio_value =
                     FAdd(trajectory[i].cash,
                          FMul(Int2F(trajectory[i].shares_held), trajectory[i].price))

\* A share bought, held over a price rise and over a price fall, then sold.
C15_Witness ==
    /\ RunActive
    /\ OneShareZeroCost
    /\ Len(trajectory) = 3
    /\ PositivePricesUpTo(3)
    /\ trajectory[1].shares_traded = 1
    /\ trajectory[2].shares_held = 1
    /\ FGt(trajectory[2].price, trajectory[1].price)
    /\ FLt(trajectory[3].price, trajectory[2].price)
    /\ trajectory[3].shares_traded = -1
    /\ HeldGain(3) = Zero

(***************************************************************************)
(* Properties of the backtest metrics                                      *)
(***************************************************************************)
RECURSIVE SumOver(_,_)
SumOver(S, f) ==
    IF S = {} THEN Zero
    ELSE LET x == CHOOSE y \in S : TRUE IN FAdd(f[x], SumOver(S \ {x}, f))

RECURSIVE ProdOver(_,_)
ProdOver(S, f) ==
    IF S = {} THEN One
    ELSE LET x == CHOOSE y \in S : TRUE IN FMul(f[x], ProdOver(S \ {x}, f))

\* The return of row i with a null counted as 0.
FilledRet(i) == IF panel_df.rows[i].ret_1d = NaN THEN Zero ELSE panel_df.rows[i].ret_1d

\* The metrics of the in-range rows under the positions pos (1, 0 or -1 a row).
MetricsUnder(pos) ==
    LET n == Cardinality(InRange)
        strat == [i \in InRange |-> FMul(Int2F(pos[i]), FilledRet(i))]
        mean == FDiv(SumOver(InRange, strat), Int2F(n))
        sq == [i \in InRange |-> FMul(FSub(strat[i], mean), FSub(strat[i], mean))]
    IN  [total_return |-> FSub(ProdOver(InRange, [i \in InRange |-> FAdd(One, strat[i])]), One),
         daily_mean |-> mean,
         variance |-> FDiv(SumOver(InRange, sq), Int2F(n))]

\* C16: every metric of a successful backtest is defined: with a null
\* return_1d counted as 0, total_return, daily_mean and the population
\* variance under daily_vol are those of some assignment of positions to the
\* rows in range; the Sharpe-like ratio is daily_mean over daily_vol when
\* daily_vol is positive and exactly 0 when it is 0, as in a one-day run.
C16_MetricsDefined ==
    (Backtested /\ response.ok) =>
        /\ response.total_return # NaN
        /\ response.daily_mean # NaN
        /\ response.daily_vol.sqrt_of # NaN
        /\ AtLeast(response.daily_vol.sqrt_of, Zero)
        /\ \E pos \in [InRange -> {-1, 0, 1}] :
              LET m == MetricsUnder(pos)
              IN  /\ response.total_return = m.total_return
                  /\ response.daily_mean = m.daily_mean
                  /\ response.daily_vol.sqrt_of = m.variance
        /\ response.daily_sharpe_like =
              (IF response.daily_vol.sqrt_of = Zero
               THEN [mean |-> Zero, over_sqrt_of |-> One]
               ELSE [mean |-> response.daily_mean,
                     over_sqrt_of |-> response.daily_vol.sqrt_of])
        /\ Cardinality(InRange) = 1 => response.daily_sharpe_like.mean = Zero

\* A run over a row with a null return_1d and a row with a traded return:
\* the volatility is positive and the ratio is mean over volatility.
C16_Witness ==
    /\ Backtested
    /\ response.ok
    /\ \E i \in InRange : panel_df.rows[i].ret_1d = NaN
    /\ response.daily_vol.sqrt_of # Zero
    /\ response.daily_sharpe_like.mean = response.daily_mean
    /\ response.daily_mean # Zero

(***************************************************************************)
(* Properties of the rolling features                                      *)
(***************************************************************************)
FeaturesEnsured == server_pc = "done" /\ request.op = "_ensure_features"

\* The rows of the security of row i up to row i, and the last five of them.
OwnUpTo(i) == {j \in 1..i : panel_df.rows[j].ticker = panel_df.rows[i].ticker}
LastFive(i) == {j \in OwnUpTo(i) : Cardinality({l \in OwnUpTo(i) : l >= j}) <= 5}

\* C17: ret_5d of a row is the sum of ret_1d over the last five rows of the
\* same security up to that row, null while the security has fewer than
\* five rows (or a null return among the five); the rows of another
\* security ahead of it in the panel never enter the sum.
C17_RollingPerSecurity ==
    FeaturesEnsured =>
        \A i \in PanelRowIdx :
            response.rows[i].ret_5d =
                (IF Cardinality(OwnUpTo(i)) < 5 THEN NaN
                 ELSE SumOver(LastFive(i), [j \in LastFive(i) |-> panel_df.rows[j].ret_1d]))

\* A security with six returns behind two returns of another security: its
\* fifth and sixth rows carry different sums, its fourth row none.
C17_Witness ==
    /\ FeaturesEnsured
    /\ \E i \in PanelRowIdx :
         /\ i >= 8
         /\ Cardinality(OwnUpTo(i)) = 6
         /\ panel_df.rows[1].ret_1d # NaN
         /\ panel_df.rows[2].ret_1d # NaN
         /\ response.rows[i].ret_5d # NaN
         /\ response.rows[i - 1].ret_5d # NaN
         /\ response.rows[i].ret_5d # response.rows[i - 1].ret_5d
         /\ response.rows[i - 2].ret_5d = NaN

(***************************************************************************)
(* Quantile determinism of the threshold resolver                          *)
(***************************************************************************)
\* The k-th smallest score of the window, by counting: it depends on the
\* scores as a multiset only.
OrderStat(k) ==
    LET below(v) == Cardinality({i \in InFitWindow : FLt(RowScore(i), v)})
        upto(v) == Cardinality({i \in InFitWindow : FLe(RowScore(i), v)})
    IN  CHOOSE v \in {RowScore(i) : i \in InFitWindow} : below(v) < k /\ k <= upto(v)

\* Linear interpolation between the order statistics around q * (n - 1).
InterpolatedQuantile(q) ==
    LET n == Cardinality(InFitWindow)
        lo == (q[1] * (n - 1)) \div q[2]
        frac == Rat(q[1] * (n - 1) - lo * q[2], q[2])
    IN  IF frac = Zero THEN OrderStat(lo + 1)
        ELSE FAdd(OrderStat(lo + 1), FMul(frac, FSub(OrderStat(lo + 2), OrderStat(lo + 1))))

\* C18: when q_buy = q_sell the two thresholds are equal; for q = 0.5 over
\* an odd number of scores both are the middle order statistic; and each
\* threshold is the linear interpolation between the order statistics of
\* the in-window scores, whatever the order of their rows.
C18_QuantileDeterminism ==
    (ThresholdsServed /\ FitParsed /\ InFitWindow # {}) =>
        LET n == Cardinality(InFitWindow)
        IN  /\ request.q_buy = request.q_sell =>
                  response.buy_threshold = response.sell_threshold
            /\ (request.q_buy = Rat(1, 2) /\ n % 2 = 1) =>
                  response.buy_threshold = OrderStat((n + 1) \div 2)
            /\ (request.q_sell = Rat(1, 2) /\ n % 2 = 1) =>
                  response.sell_threshold = OrderStat((n + 1) \div 2)
            /\ response.buy_threshold = InterpolatedQuantile(request.q_buy)
            /\ response.sell_threshold = InterpolatedQuantile(request.q_sell)

\* The scores 0, 1, -1 in this row order, q_buy = q_sell = 0.5: both
\* thresholds are the median 0.
C18_Witness ==
    /\ ThresholdsServed
    /\ FitParsed
    /\ request.q_buy = Rat(1, 2)
    /\ request.q_sell = Rat(1, 2)
    /\ Cardinality(InFitWindow) = 3
    /\ \E i \in InFitWindow :
         /\ i + 1 \in InFitWindow /\ i + 2 \in InFitWindow
         /\ RowScore(i) = Zero
         /\ RowScore(i + 1) = One
         /\ RowScore(i + 2) = Int2F(-1)
    /\ response.buy_threshold = Zero
    /\ response.sell_threshold = Zero

(***************************************************************************)
(* Properties of keep_latest_per_filed_date and choose_single_unit         *)
(***************************************************************************)
KeepStep == norm_pc = "single_unit" /\ norm_pc' = "normalized"
ChooseStep == norm_pc = "filtered" /\ norm_pc' = "single_unit"
FiledKey(r) == <<r.ticker, r.concept, r.filed>>
Pair(r) == <<r.ticker, r.concept>>
RowsIn(df) == {df[i] : i \in 1..Len(df)}

\* C19: keep_latest_per_filed_date leaves at most one fact per (security,
\* concept, filed date); each fact it leaves is one of the facts it was
\* given, and no fact given with the same (security, concept, filed date)
\* has a later period end date.
C19_OneLatestFactPerFiledDate ==
    [][KeepStep =>
          /\ \A i, k \in 1..Len(normalized') :
                FiledKey(normalized'[i]) = FiledKey(normalized'[k]) => i = k
          /\ RowsIn(normalized') \subseteq RowsIn(normalized)
          /\ \A r \in RowsIn(normalized) :
                \E kept \in RowsIn(normalized') :
                   FiledKey(kept) = FiledKey(r) /\ kept.end >= r.end]_vars

\* Two loaded facts of one (security, concept, unit, filed date) with
\* different period ends: the later one is kept, the earlier one dropped.
C19_Witness ==
    /\ norm_pc = "normalized"
    /\ \E i, k \in FactIdx :
         /\ FiledKey(facts[i]) = FiledKey(facts[k])
         /\ facts[i].unit = facts[k].unit
         /\ facts[i].end < facts[k].end
         /\ facts[k] \in RowsIn(normalized)
         /\ facts[i] \notin RowsIn(normalized)

\* Facts of pair p in unit u among the rows df, and where u is first seen.
CountOf(df, p, u) == Cardinality({i \in 1..Len(df) : Pair(df[i]) = p /\ df[i].unit = u})
FirstSeen(df, p, u) ==
    CHOOSE i \in 1..Len(df) :
        /\ Pair(df[i]) = p /\ df[i].unit = u
        /\ \A k \in 1..(i - 1) : ~(Pair(df[k]) = p /\ df[k].unit = u)

\* choose_single_unit keeps, of every pair, exactly the facts of one unit u
\* with the highest count, in their order; the tie of u with another unit v
\* goes to the unit seen first in the rows or to the first by name.
FirstSeenWins(p, u, v) == FirstSeen(normalized, p, u) < FirstSeen(normalized, p, v)
FirstByNameWins(p, u, v) == UnitRank(u) < UnitRank(v)
Wins(tie_break, p, u, v) ==
    IF tie_break = "first_seen" THEN FirstSeenWins(p, u, v) ELSE FirstByNameWins(p, u, v)

OneUnitKept(tie_break) ==
    \A p \in {Pair(r) : r \in RowsIn(normalized)} :
        \E u \in Units :
            /\ CountOf(normalized, p, u) > 0
            /\ \A r \in RowsIn(normalized) :
                  Pair(r) = p => (r \in RowsIn(normalized') <=> r.unit = u)
            /\ \A v \in Units \ {u} :
                  /\ CountOf(normalized, p, v) <= CountOf(normalized, p, u)
                  /\ (CountOf(normalized, p, v) = CountOf(normalized, p, u)) =>
                        Wins(tie_break, p, u, v)

OrderKept ==
    normalized' = SelectSeq(normalized, LAMBDA r : r \in RowsIn(normalized'))

\* C20 as stated: one unit per (security, concept), the most frequent one,
\* and of two units with the same count the one seen first in the input.
C20_MostFrequentUnitFirstSeen ==
    [][ChooseStep => (OneUnitKept("first_seen") /\ OrderKept)]_vars

\* C20 amended: one unit per (security, concept), the most frequent one,
\* and of two units with the same count the one whose name comes first in
\* string order ("USD" before "shares"), wherever it appears in the input;
\* the facts of every other unit are discarded, those of the kept unit all
\* remain.
C20_MostFrequentUnitFirstByName ==
    [][ChooseStep => (OneUnitKept("first_by_name") /\ OrderKept)]_vars

\* A pair whose first fact is in "shares" and whose units tie: the "USD"
\* fact is kept and the "shares" fact dropped, next to a fact of another pair.
C20_Witness ==
    /\ norm_pc = "single_unit"
    /\ \E i, k \in FactIdx :
         /\ i < k
         /\ Tracked(facts[i])
         /\ Pair(facts[i]) = Pair(facts[k])
         /\ facts[i].unit = "shares" /\ facts[k].unit = "USD"
         /\ CountOf(facts, Pair(facts[i]), "shares") = CountOf(facts, Pair(facts[i]), "USD")
         /\ facts[k] \in RowsIn(normalized)
         /\ facts[i] \notin RowsIn(normalized)
         /\ \E o \in FactIdx : Tracked(facts[o]) /\ Pair(facts[o]) # Pair(facts[i])
                                /\ facts[o] \in RowsIn(normalized)

(***************************************************************************)
(* Properties of fundamentals_wide_by_filed                                *)
(***************************************************************************)
Pivoted == norm_pc = "wide"
WideRowIdx == 1..Len(wide_facts)
FiledPairs == {<<normalized[i].ticker, normalized[i].filed>> : i \in NormIdx}
FactsAt(t, f, c) ==
    {i \in NormIdx : /\ normalized[i].ticker = t /\ normalized[i].filed = f
                     /\ normalized[i].concept = c}

\* The cell of row j for concept c: null when the table has no such column.
Cell(j, c) ==
    IF c \in DOMAIN wide_facts[j].vals THEN wide_facts[j].vals[c] ELSE Null

\* C21: the wide table has exactly one row per (security, filed date) of the
\* normalized facts and no other row, the filed dates of a security strictly
\* increase down the table, and the cell of a concept is the value of the
\* normalized fact of that (security, filed date, concept), null when there
\* is no such fact or its value is null; no (security, filed date) is dropped.
C21_WideRowPerFiledDate ==
    Pivoted =>
        /\ \A p \in FiledPairs :
              Cardinality({j \in WideRowIdx :
                             <<wide_facts[j].ticker, wide_facts[j].filed>> = p}) = 1
        /\ \A j \in WideRowIdx : <<wide_facts[j].ticker, wide_facts[j].filed>> \in FiledPairs
        /\ \A j, k \in WideRowIdx :
              (j < k /\ wide_facts[j].ticker = wide_facts[k].ticker) =>
                  wide_facts[j].filed < wide_facts[k].filed
        /\ \A j \in WideRowIdx : \A c \in ConceptSet :
              LET at == FactsAt(wide_facts[j].ticker, wide_facts[j].filed, c)
              IN  IF at = {} THEN Cell(j, c) = Null
                  ELSE \A i \in at : Cell(j, c) = normalized[i].value

(***************************************************************************)
(* Properties of the momentum score                                        *)
(***************************************************************************)
RowScored == server_pc = "done" /\ request.op = "_heuristic_score"
NullReturn == request.row.ret_20d = NaN
NoVolatility == request.row.vol_20d = NaN \/ Num(request.row.vol_20d) = 0
Numerator == IF NullReturn THEN Zero ELSE request.row.ret_20d

\* C22: the score of a row is numerator / denominator, where the numerator
\* is ret_20d, or 0 when ret_20d is null, and the denominator is vol_20d, or 1
\* when vol_20d is null or zero, in which case the score is the numerator; a
\* substituted value is reported as a null component, any other as itself.
\* The score is a number (not NaN, with a non-zero denominator behind it).
C22_ScoreSubstitutions ==
    RowScored =>
        /\ response.score # NaN
        /\ Den(response.score) > 0
        /\ response.components.score = response.score
        /\ response.components.ret_20d =
              (IF NullReturn THEN Null ELSE Some(request.row.ret_20d))
        /\ response.components.vol_20d =
              (IF NoVolatility THEN Null ELSE Some(request.row.vol_20d))
        /\ IF NoVolatility THEN response.score = Numerator
           ELSE Num(response.score) * Num(request.row.vol_20d) * Den(Numerator)
                  = Num(Numerator) * Den(response.score) * Den(request.row.vol_20d)

\* A row with a return of 2 and a volatility of exactly zero is scored 2,
\* with the volatility component reported null.
C22_Witness ==
    /\ RowScored
    /\ request.row.vol_20d = Zero
    /\ request.row.ret_20d = Int2F(2)
    /\ response.score = Int2F(2)
    /\ response.components.ret_20d = Some(Int2F(2))
    /\ response.components.vol_20d = Null

\* C23 as stated: a scored row whose vol_20d is null or zero has score 0 and
\* a null volatility component, whatever its ret_20d.
C23_ZeroScoreWithoutVolatility ==
    (RowScored /\ NoVolatility) =>
        /\ response.score = Zero
        /\ response.components.vol_20d = Null

\* C23 amended: a scored row whose vol_20d is null or zero has its ret_20d as
\* score, 0 only when ret_20d is null or 0, and a null volatility component.
C23_ReturnScoreWithoutVolatility ==
    (RowScored /\ NoVolatility) =>
        /\ response.score = (IF NullReturn THEN Zero ELSE request.row.ret_20d)
        /\ (response.score = Zero) <=> (NullReturn \/ request.row.ret_20d = Zero)
        /\ response.components.vol_20d = Null

\* A row with a null volatility and a return of -1/2 is scored -1/2.
C23_Witness ==
    /\ RowScored
    /\ request.row.vol_20d = NaN
    /\ request.row.ret_20d = Rat(-1, 2)
    /\ response.score = Rat(-1, 2)
    /\ response.components.vol_20d = Null

\* C30: the score column that thresholds are fitted on agrees with the score
\* a decision uses: a row's score_mom, when not null, is the score
\* _heuristic_score returns for the row; score_mom is null, so that the row is
\* left out of the fitted population, exactly when ret_20d is null or vol_20d
\* is null or zero, and the row still has a decision score that is a number.
C30_FittedScoreIsDecisionScore ==
    RowScored =>
        /\ request.row.score_mom # NaN => request.row.score_mom = response.score
        /\ request.row.score_mom = NaN <=> (NullReturn \/ NoVolatility)
        /\ response.score # NaN

\* A row with a return of 1/2 and a zero volatility: no score_mom, and a
\* decision score of 1/2; the panel's other row has no score_mom either.
C30_Witness ==
    /\ RowScored
    /\ request.row.ret_20d = Rat(1, 2)
    /\ request.row.vol_20d = Zero
    /\ request.row.score_mom = NaN
    /\ response.score = Rat(1, 2)
    /\ Len(panel_df.rows) = 2

(***************************************************************************)
(* Properties of the standalone backtest                                   *)
(***************************************************************************)
\* The columns a row is scored on: a panel without the rolling columns gets
\* them from windows of 20 rows, which no panel here fills.
ScoredColumn(i, col) ==
    IF panel_df.has_features THEN panel_df.rows[i][col] ELSE NaN

\* The decision score of row i and its position under the reported thresholds.
DayScore(i) ==
    LET ret == ScoredColumn(i, "ret_20d")
        vol == ScoredColumn(i, "vol_20d")
        num == IF ret = NaN THEN Zero ELSE ret
    IN  IF vol = NaN \/ Num(vol) = 0 THEN num
        ELSE Rat(Num(num) * Den(vol), Den(num) * Num(vol))
DayPosition(i) ==
    IF AtLeast(DayScore(i), response.thresholds.buy) THEN 1
    ELSE IF AtMost(DayScore(i), response.thresholds.sell) THEN -1
    ELSE 0

\* C24: in a successful backtest the position of every day in range is that
\* of the day's own action (BUY 1, HOLD 0, SELL -1) under the one reported
\* pair of thresholds, which for the fixed method is the pair given;
\* total_return is the product over the days in range of
\* (1 + position * return_1d), a null return counted as 0, minus 1, and the
\* mean and the variance are those of position * return_1d.
C24_PositionFromDayAction ==
    (Backtested /\ response.ok) =>
        LET m == MetricsUnder([i \in InRange |-> DayPosition(i)])
        IN  /\ response.total_return = m.total_return
            /\ response.daily_mean = m.daily_mean
            /\ response.daily_vol.sqrt_of = m.variance
            /\ response.threshold_method = "fixed" =>
                  /\ response.thresholds.buy = request.thresholds.buy_threshold
                  /\ response.thresholds.sell = request.thresholds.sell_threshold

\* A BUY day with a return followed by a HOLD day with a return: the second
\* day adds nothing, total_return is the first day's return.
C24_Witness ==
    /\ Backtested
    /\ response.ok
    /\ \E i, k \in InRange :
         /\ RowDay(i) < RowDay(k)
         /\ DayPosition(i) = 1 /\ DayPosition(k) = 0
         /\ FilledRet(i) # Zero /\ FilledRet(k) # Zero
         /\ response.total_return = FilledRet(i)

(***************************************************************************)
(* Properties of apply_trade                                               *)
(***************************************************************************)
Returned == trade_pc = "returned"
TheCall == trajectory[1]
AllIn == cfg.sizing_type \in {"all_in", "ALL_IN "}
MaxAllInShares == 8

\* floor(cash / price) for a positive price: the greatest whole number of
\* shares whose notional does not exceed the cash.
FloorShares ==
    CHOOSE n \in 0..MaxAllInShares :
        /\ FLe(FMul(Int2F(n), TheCall.price), TheCall.cash_before)
        /\ FGt(FMul(Int2F(n + 1), TheCall.price), TheCall.cash_before)

\* What buying n shares takes from the cash, the cost included.
SpendOf(n) ==
    LET notional == FMul(Int2F(n), TheCall.price)
    IN  FAdd(notional, FDiv(FMul(notional, cfg.transaction_cost_bps), Int2F(10000)))

NoTrade ==
    /\ TheCall.returned.cash = TheCall.cash_before
    /\ TheCall.returned.shares_held = TheCall.shares_before
    /\ TheCall.returned.shares_traded = 0
    /\ TheCall.returned.cost = Zero

HoldsWhenHolding ==
    (TheCall.target_position = 1 /\ TheCall.shares_before > 0) => NoTrade
ExitsInFull ==
    TheCall.target_position = 0 =>
        /\ TheCall.returned.shares_held = 0
        /\ TheCall.returned.shares_traded = -TheCall.shares_before

C26_DegradesGracefully ==
    Returned =>
        /\ FLe(TheCall.price, Zero) => NoTrade
        /\ ~AllIn => TheCall.returned = TheCall.as_one_share
        /\ (~AllIn /\ FGt(TheCall.price, Zero)) =>
              TheCall.returned.shares_traded \in
                 {0, (IF TheCall.target_position = 1 THEN 1 ELSE 0) - TheCall.shares_before}

\* The unknown policy "half" with cash 4, price 1, flat, target 1: one share
\* is bought, as one_share does, where all_in would buy four.
C26_Witness ==
    /\ Returned
    /\ cfg.sizing_type = "half"
    /\ cfg.transaction_cost_bps = Zero
    /\ TheCall.price = One
    /\ TheCall.cash_before = Int2F(4)
    /\ TheCall.shares_before = 0
    /\ TheCall.target_position = 1
    /\ TheCall.returned.shares_held = 1
    /\ TheCall.returned.cash = Int2F(3)

(***************************************************************************)
(* Properties of the daily trading loop                                    *)
(***************************************************************************)
\* The day the last manager answer belongs to, recorded unless the day raised.
DayRan == trade_pc \in {"loop", "raised"} /\ manager_json # <<>>
LastDay == IF trade_pc = "loop" THEN Len(trajectory) ELSE Len(trajectory) + 1
\* The answers that spell BUY or SELL once trimmed and put in upper case.
HoldAnswer == manager_json.action \notin {"BUY", "SELL", "buy "}

OneShareMode == cfg.sizing_type \in {"one_share", ""}

C29_DailyReturnDefined ==
    (RunActive /\ FGt(cfg.initial_cash, Zero)) =>
        /\ trade_pc # "raised"
        /\ \A i \in EventIdx :
              IF i = 1 THEN trajectory[i].portfolio_return_1d = Zero
              ELSE /\ trajectory[i - 1].portfolio_value # Zero
                   /\ FMul(FAdd(trajectory[i].portfolio_return_1d, One),
                           trajectory[i - 1].portfolio_value)
                        = trajectory[i].portfolio_value

====
